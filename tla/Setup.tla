-------------------------------- MODULE Setup ---------------------------------
(***************************************************************************)
(* How the three programs come to their sockets: main of server.c,         *)
(* client.c and heartbeat_client.c up to the moment they work, with        *)
(* setup_server_tcp, setup_server_udp, setup_client and                    *)
(* setup_heartbeat_client, call by call, on one machine.  Any process may  *)
(* end and be started again with other arguments.                          *)
(*                                                                         *)
(* The kernel is modelled as far as two sockets can be in each other's     *)
(* way: with SO_REUSEADDR on both, bind is refused only where the other    *)
(* one listens, and listen where another one does; without it, also where  *)
(* connections of a former run linger.  What a program does once it works  *)
(* is the matter of the other modules.                                     *)
(***************************************************************************)
EXTENDS Arguments

CONSTANTS
  Procs,           \* processes
  MayRun,          \* the programs each one may run
  ArgumentLists,   \* bound: for each process and program the arguments it may be given
  Addresses        \* what getaddrinfo makes of a host: a sequence of addresses

ASSUME SetupAssumption ==
  /\ MayRun \in [Procs -> SUBSET Programs]
  /\ DOMAIN ArgumentLists = Procs
  /\ \A host \in DOMAIN Addresses : Addresses[host] \in Seq(STRING) \ {<<>>}

\* The addresses of this machine, and the one that stands for all of them.
INADDR_ANY == "0.0.0.0"
LocalAddresses == {"127.0.0.1", INADDR_ANY}

\* For an address, getaddrinfo has that address (with AF_INET and one kind of
\* socket in hints, once).
ASSUME NumericAssumption ==
  \A ip \in LocalAddresses \cap DOMAIN Addresses : Addresses[ip] = <<ip>>

VARIABLES
  runs, config,    \* what a process runs, and what it was told
  pc, call,           \* where it is, and in which setup call
  addrs, sockfd,      \* p, what is left of servinfo; the local variable sockfd
  known,              \* the descriptors that main has
  sockets,            \* kernel: the open sockets of each process
  lingering           \* kernel: addresses with connections in TIME_WAIT

vars == <<runs, config, pc, call, addrs, sockfd, known, sockets, lingering>>
kernel == <<sockets, lingering>>

Calls == {"tcp", "udp", "http", "external", "local"}
NothingKnown == [c \in Calls |-> 0]

Init ==
  /\ runs \in {f \in [Procs -> Programs] : \A p \in Procs : f[p] \in MayRun[p]}
  /\ pc = [p \in Procs |-> "ended"]
  /\ config = [p \in Procs |-> Defaults(runs[p])]
  /\ call = [p \in Procs |-> "tcp"]
  /\ addrs = [p \in Procs |-> <<>>]
  /\ sockfd = [p \in Procs |-> 0]
  /\ known = [p \in Procs |-> NothingKnown]
  /\ sockets = [p \in Procs |-> <<>>]
  /\ lingering = {}

-------------------------------------------------------------------------------
\* The kernel.

NoAddr == [ip |-> "", port |-> ""]
FreshSocket(proto) == [proto |-> proto, state |-> "open", reuse |-> FALSE,
                       addr |-> NoAddr, peer |-> NoAddr]

\* The next descriptor: the lowest that is free, above the standard ones.
FreeFd(p) == CHOOSE fd \in 3 .. 3 + Cardinality(DOMAIN sockets[p]) :
               /\ fd \notin DOMAIN sockets[p]
               /\ \A lower \in 3 .. fd - 1 : lower \in DOMAIN sockets[p]

Overlap(a, b) == a.port = b.port /\ (a.ip = b.ip \/ INADDR_ANY \in {a.ip, b.ip})

AllSockets == UNION {{p} \X DOMAIN sockets[p] : p \in Procs}
Sock(s) == sockets[s[1]][s[2]]

\* Who is in the way of socket s at an address.
InTheWay(s, addr) ==
  {t \in AllSockets \ {s} :
     /\ Sock(t).proto = Sock(s).proto /\ Sock(t).state \in {"bound", "listening"}
     /\ Overlap(Sock(t).addr, addr)
     /\ Sock(t).state = "listening" \/ ~ Sock(t).reuse \/ ~ Sock(s).reuse}

MayBind(s, addr) ==
  /\ addr.ip \in LocalAddresses /\ InTheWay(s, addr) = {}
  /\ Sock(s).reuse \/ Sock(s).proto = "udp" \/ \A a \in lingering : ~ Overlap(a, addr)

Listeners(addr) ==
  {t \in AllSockets : Sock(t).state = "listening" /\ Overlap(Sock(t).addr, addr)}

ListenersOf(p) == {s \in AllSockets : s[1] = p /\ Sock(s).state = "listening"}

CloseFd(p) == sockets' = [sockets EXCEPT ![p] = Restrict(@, DOMAIN @ \ {sockfd[p]})]
SetSocket(p, fd, s) ==
  sockets' = [sockets EXCEPT ![p] = [n \in DOMAIN @ \cup {fd} |-> IF n = fd THEN s ELSE @[n]]]

\* The end of a process: its sockets are closed, and what its listeners had
\* accepted may linger.
Exit(p) ==
  /\ pc' = [pc EXCEPT ![p] = "ended"]
  /\ config' = [config EXCEPT ![p] = Defaults(runs[p])]
  /\ call' = [call EXCEPT ![p] = "tcp"]
  /\ addrs' = [addrs EXCEPT ![p] = <<>>]
  /\ sockfd' = [sockfd EXCEPT ![p] = 0]
  /\ known' = [known EXCEPT ![p] = NothingKnown]
  /\ sockets' = [sockets EXCEPT ![p] = <<>>]
  /\ UNCHANGED runs

\* Connections cease to linger after a while.
Expire ==
  /\ lingering # {} /\ lingering' = {}
  /\ UNCHANGED <<runs, pc, config, call, addrs, sockfd, known, sockets>>

-------------------------------------------------------------------------------
\* What the setup functions have in common.  An action stands for one call into
\* the library or the kernel; the lists that are only printed are left out.

HostOf(c)  == [tcp |-> "--local-ip", udp |-> "--local-ip", local |-> "--local-ip",
               external |-> "--external-ip", http |-> "--local-ip"][c]
PortOf(c)  == [tcp |-> "--local-port-tcp", udp |-> "--local-port-udp",
               http |-> "--local-port-tcp-http", local |-> "--local-port",
               external |-> "--external-port"][c]

\* The arguments of the call: HTTP is offered at all addresses.
Host(p) == IF call[p] = "http" THEN INADDR_ANY ELSE config[p][HostOf(call[p])]
Port(p) == config[p][PortOf(call[p])]
Addr(p) == [ip |-> Head(addrs[p]), port |-> Port(p)]

Goto(p, label) == pc' = [pc EXCEPT ![p] = label]

Return(p, fd) ==
  /\ Goto(p, "returned")
  /\ sockfd' = [sockfd EXCEPT ![p] = fd]
  /\ addrs' = [addrs EXCEPT ![p] = <<>>]

Resolves(p) == Host(p) \in DOMAIN Addresses

Getaddrinfo(p) ==
  /\ pc[p] = "resolve"
  /\ \/ /\ Resolves(p)
        /\ addrs' = [addrs EXCEPT ![p] = Addresses[Host(p)]]
        /\ Goto(p, "socket") /\ UNCHANGED sockfd
     \/ Return(p, -1)
  /\ UNCHANGED <<runs, config, call, known, kernel>>

\* The loop over the addresses goes on, or has come to its end.
NextAddress(p) ==
  /\ addrs' = [addrs EXCEPT ![p] = Tail(@)]
  /\ Goto(p, "socket")

NoAddressLeft(p) ==
  /\ pc[p] = "socket" /\ addrs[p] = <<>>
  /\ Return(p, -1)
  /\ UNCHANGED <<runs, config, call, known, kernel>>

Socket(p, proto, next) ==
  /\ pc[p] = "socket" /\ addrs[p] # <<>>
  /\ \/ /\ sockfd' = [sockfd EXCEPT ![p] = FreeFd(p)]
        /\ SetSocket(p, FreeFd(p), FreshSocket(proto))
        /\ Goto(p, next) /\ UNCHANGED addrs
     \/ /\ sockfd' = [sockfd EXCEPT ![p] = -1]
        /\ NextAddress(p) /\ UNCHANGED sockets
  /\ UNCHANGED <<runs, config, call, known, lingering>>

\* Mutant: the address may not be reused.
SetsockoptNoReuse(p) ==
  /\ pc[p] = "setsockopt"
  /\ Goto(p, "bind")
  /\ UNCHANGED <<runs, config, call, addrs, sockfd, known, kernel>>

\* A socket whose option cannot be set is given up without being closed.
Setsockopt(p) ==
  /\ pc[p] = "setsockopt"
  /\ \/ /\ SetSocket(p, sockfd[p], [sockets[p][sockfd[p]] EXCEPT !.reuse = TRUE])
        /\ Goto(p, "bind") /\ UNCHANGED addrs
     \/ NextAddress(p) /\ UNCHANGED sockets
  /\ UNCHANGED <<runs, config, call, sockfd, known, lingering>>

\* Mutant: a socket that cannot be bound is given up without being closed.
BindKeeps(p, next) ==
  /\ pc[p] = "bind"
  /\ IF MayBind(<<p, sockfd[p]>>, Addr(p))
     THEN /\ SetSocket(p, sockfd[p], [sockets[p][sockfd[p]] EXCEPT !.state = "bound", !.addr = Addr(p)])
          /\ Goto(p, next) /\ UNCHANGED addrs
     ELSE NextAddress(p) /\ UNCHANGED sockets
  /\ UNCHANGED <<runs, config, call, sockfd, known, lingering>>

Bind(p, next) ==
  /\ pc[p] = "bind"
  /\ IF MayBind(<<p, sockfd[p]>>, Addr(p))
     THEN /\ SetSocket(p, sockfd[p], [sockets[p][sockfd[p]] EXCEPT !.state = "bound", !.addr = Addr(p)])
          /\ Goto(p, next) /\ UNCHANGED addrs
     ELSE CloseFd(p) /\ NextAddress(p)
  /\ UNCHANGED <<runs, config, call, sockfd, known, lingering>>

-------------------------------------------------------------------------------
\* The functions.

\* Mutant: the result of listen is not looked at.
ListenUnchecked(p) ==
  /\ pc[p] = "listen"
  /\ \/ /\ Listeners(Addr(p)) = {}
        /\ SetSocket(p, sockfd[p], [sockets[p][sockfd[p]] EXCEPT !.state = "listening"])
     \/ UNCHANGED sockets
  /\ Return(p, sockfd[p])
  /\ UNCHANGED <<runs, config, call, known, lingering>>

\* Two sockets may be bound to one address; only one of them comes to listen.
Listen(p) ==
  /\ pc[p] = "listen"
  /\ \/ /\ Listeners(Addr(p)) = {}
        /\ SetSocket(p, sockfd[p], [sockets[p][sockfd[p]] EXCEPT !.state = "listening"])
        /\ Return(p, sockfd[p])
     \/ Return(p, -1) /\ UNCHANGED sockets
  /\ UNCHANGED <<runs, config, call, known, lingering>>

setup_server_tcp(p) ==
  /\ call[p] \in {"tcp", "http"}
  /\ \/ Getaddrinfo(p) \/ NoAddressLeft(p) \/ Socket(p, "tcp", "setsockopt")
     \/ Setsockopt(p) \/ Bind(p, "listen") \/ Listen(p)

Bound(p) ==
  /\ pc[p] = "bound"
  /\ Return(p, sockfd[p])
  /\ UNCHANGED <<runs, config, call, known, kernel>>

setup_server_udp(p) ==
  /\ call[p] = "udp"
  /\ \/ Getaddrinfo(p) \/ NoAddressLeft(p) \/ Socket(p, "udp", "setsockopt")
     \/ Setsockopt(p) \/ Bind(p, "bound") \/ Bound(p)

\* connect finds whoever listens, or fails.
Connect(p) ==
  /\ pc[p] = "connect"
  /\ \/ /\ Listeners(Addr(p)) # {}
        /\ SetSocket(p, sockfd[p], [sockets[p][sockfd[p]] EXCEPT !.state = "connected", !.peer = Addr(p)])
        /\ Return(p, sockfd[p])
     \/ CloseFd(p) /\ NextAddress(p) /\ UNCHANGED sockfd
  /\ UNCHANGED <<runs, config, call, known, lingering>>

setup_client(p) ==
  /\ runs[p] = "client"
  /\ \/ Getaddrinfo(p) \/ NoAddressLeft(p) \/ Socket(p, "tcp", "connect") \/ Connect(p)

\* The heartbeat client binds its own address, allocates heartbeat_data, and
\* looks its server up.  When that fails, socket and memory stay with a process
\* that ends.
CreateData(p) ==
  /\ pc[p] = "bound"
  /\ \/ /\ call' = [call EXCEPT ![p] = "external"]
        /\ known' = [known EXCEPT ![p].local = sockfd[p]]
        /\ Goto(p, "resolve") /\ UNCHANGED <<addrs, sockfd>>
     \/ Return(p, -1) /\ UNCHANGED <<call, known>>
  /\ UNCHANGED <<runs, config, kernel>>

\* The first address of the server is the one that is kept, with the socket.
KeepFirst(p) ==
  /\ pc[p] = "resolve"
  /\ \/ /\ Resolves(p)
        /\ \E first \in {[ip |-> Addresses[Host(p)][1], port |-> Port(p)]} :
             SetSocket(p, known[p].local, [sockets[p][known[p].local] EXCEPT !.peer = first])
        /\ Return(p, known[p].local)
     \/ Return(p, -1) /\ UNCHANGED sockets
  /\ UNCHANGED <<runs, config, call, known, lingering>>

setup_heartbeat_client(p) ==
  \/ /\ call[p] = "local"
     /\ \/ Getaddrinfo(p) \/ NoAddressLeft(p) \/ Socket(p, "udp", "setsockopt")
        \/ Setsockopt(p) \/ Bind(p, "bound") \/ CreateData(p)
  \/ /\ call[p] = "external" /\ runs[p] = "heartbeat_client"
     /\ KeepFirst(p)

-------------------------------------------------------------------------------
\* The main functions.

\* Reading the arguments: main goes on to the first setup, or ends.
Begin(p, name, first) ==
  /\ pc[p] = "ended" /\ name \in MayRun[p]
  /\ \E argv \in ArgumentLists[p][name] :
       LET parsed == parse_arguments(name, argv) IN
       /\ parsed.result = 0
       /\ runs' = [runs EXCEPT ![p] = name]
       /\ config' = [config EXCEPT ![p] = IF name = "client" THEN AssignDefaults(parsed.config)
                                          ELSE parsed.config]
       /\ call' = [call EXCEPT ![p] = first]
       /\ Goto(p, "resolve")
       /\ UNCHANGED <<addrs, sockfd, known, kernel>>

NextCall == [tcp |-> "udp", udp |-> "http"]

\* The descriptor main looks at after a call: after the third one, the first.
Tested(p) == IF call[p] = "http" THEN known[p].tcp ELSE sockfd[p]

StoreAndGo(p) ==
  /\ known' = [known EXCEPT ![p][call[p]] = sockfd[p]]
  /\ IF call[p] = "http"
     THEN Goto(p, "pool") /\ UNCHANGED call
     ELSE Goto(p, "resolve") /\ call' = [call EXCEPT ![p] = NextCall[call[p]]]
  /\ sockfd' = [sockfd EXCEPT ![p] = 0]
  /\ UNCHANGED <<runs, config, addrs, kernel>>

\* threadpool_create finds no memory, too many threads, or a number below zero.
CreatePool(p) ==
  /\ pc[p] = "pool"
  /\ \/ /\ config[p]["--threads"] >= 0 /\ config[p]["--queue"] >= 0
        /\ Goto(p, "works")
        /\ UNCHANGED <<runs, config, call, addrs, sockfd, known, kernel>>
     \/ Exit(p) /\ UNCHANGED lingering

main_server(p) ==
  \/ Begin(p, "server", "tcp")
  \/ /\ runs[p] = "server"
     /\ \/ pc[p] = "returned" /\ Tested(p) > 0 /\ StoreAndGo(p)
        \/ pc[p] = "returned" /\ Tested(p) <= 0 /\ Exit(p) /\ UNCHANGED lingering
        \/ CreatePool(p)
        \/ /\ pc[p] = "works" /\ Exit(p)
           /\ \/ UNCHANGED lingering
              \/ lingering' = lingering \cup {Sock(s).addr : s \in ListenersOf(p)}

\* The clients: one descriptor, and its work.
main_client(p) ==
  \/ Begin(p, "client", "external")
  \/ /\ runs[p] = "client"
     /\ \/ /\ pc[p] = "returned" /\ sockfd[p] > 0
           /\ known' = [known EXCEPT ![p].external = sockfd[p]]
           /\ Goto(p, "works") /\ UNCHANGED <<runs, config, call, addrs, sockfd, kernel>>
        \/ pc[p] = "returned" /\ sockfd[p] <= 0 /\ Exit(p) /\ UNCHANGED lingering
        \/ pc[p] = "works" /\ Exit(p) /\ UNCHANGED lingering

main_heartbeat_client(p) ==
  \/ Begin(p, "heartbeat_client", "local")
  \/ /\ runs[p] = "heartbeat_client"
     /\ \/ /\ pc[p] = "returned" /\ sockfd[p] > 0
           /\ Goto(p, "works") /\ UNCHANGED <<runs, config, call, addrs, sockfd, known, kernel>>
        \/ pc[p] = "returned" /\ sockfd[p] <= 0 /\ Exit(p) /\ UNCHANGED lingering
        \/ pc[p] = "works" /\ Exit(p) /\ UNCHANGED lingering

Step(p) ==
  \/ main_server(p) \/ setup_server_tcp(p) \/ setup_server_udp(p)
  \/ main_client(p) \/ setup_client(p)
  \/ main_heartbeat_client(p) \/ setup_heartbeat_client(p)

Next == Expire \/ \E p \in Procs : Step(p)

Spec == Init /\ [][Next]_vars

-------------------------------------------------------------------------------
\* Properties.

\* A socket that cannot disturb and that nobody will close: setsockopt failed.
GivenUp(s) == Sock(s).state = "open" /\ ~ Sock(s).reuse
\* A bound socket that listen failed on.
Unheard(s) == Sock(s).state = "bound" /\ Sock(s).proto = "tcp"

\* A server that works has three sockets of its own: the first listens, the
\* second is bound, and the third listens unless HTTP could not be set up, which
\* main does not see; each at the port the arguments asked for.
ReadyToServe ==
  \A p \in Procs : runs[p] = "server" /\ pc[p] = "works" =>
    /\ \A c \in {"tcp", "udp", "http"} :
         \/ /\ known[p][c] \in DOMAIN sockets[p]
            /\ sockets[p][known[p][c]].state = IF c = "udp" THEN "bound" ELSE "listening"
            /\ sockets[p][known[p][c]].addr.port = config[p][PortOf(c)]
         \/ c = "http" /\ known[p][c] = -1
    /\ \A c, d \in {"tcp", "udp", "http"} : known[p][c] = known[p][d] => c = d

\* Of all the sockets it made on its way, a program that works has kept those it
\* knows, and those it gave up for a failing setsockopt or listen; it never sits
\* on an address it was refused.
NoStraySocket ==
  \A p \in Procs : pc[p] = "works" =>
    \A s \in AllSockets : s[1] = p =>
      \/ s[2] \in {known[p][c] : c \in Calls}
      \/ runs[p] # "client" /\ (GivenUp(s) \/ (Unheard(s) /\ known[p].http = -1))

\* Which service a process talks to.
Service(p) == CASE runs[p] = "heartbeat_client" -> "udp"
                [] runs[p] = "client" -> IF config[p]["--mode"] = 0 THEN "tcp" ELSE "http"

OnDefaults(p) ==
  \A option \in DOMAIN Defaults(runs[p]) \ {"--mode", "--threads", "--queue"} :
    config[p][option] = IF runs[p] = "client"
                        THEN AssignDefaults([ClientDefaults EXCEPT !["--mode"] = config[p]["--mode"]])[option]
                        ELSE Defaults(runs[p])[option]

\* The defaults of the three programs agree: a client that was told nothing but
\* its mode is connected to the address of that mode's service, and to no other
\* of the server's, and heartbeats go where the server expects them.
ModeMeetsService ==
  \A p, q \in Procs :
    /\ runs[p] # "server" /\ pc[p] = "works" /\ OnDefaults(p)
    /\ runs[q] = "server" /\ pc[q] = "works" /\ OnDefaults(q)
    => LET peer == sockets[p][sockfd[p]].peer IN
         \A c \in {"tcp", "udp", "http"} :
           known[q][c] # -1 => (Overlap(sockets[q][known[q][c]].addr, peer) <=> c = Service(p))

\* A bind is refused only because another socket is in use at that address, or
\* the address is not of this machine: never because of what is left of a former
\* run, however often the server is started again.
OnlyLiveSocketsRefuse ==
  [][\A p \in Procs :
       pc[p] = "bind" /\ pc'[p] = "socket" =>
         \/ Head(addrs[p]) \notin LocalAddresses
         \/ \E s \in AllSockets : /\ s # <<p, sockfd[p]>> /\ Sock(s).state = "listening"
                                  /\ Overlap(Sock(s).addr, Addr(p))]_vars
===============================================================================
