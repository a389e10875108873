-------------------------------- MODULE Server --------------------------------
(***************************************************************************)
(* The server process: main and handle_connections of server.c, from the   *)
(* installation of the SIGINT handler to the exit status.                  *)
(*                                                                         *)
(* The loop copies master into three sets, lets select reduce them to the  *)
(* ready descriptors, and visits these in ascending order; each visit is   *)
(* an accept or one handler call.  The pool makes handler calls            *)
(* synchronous (module SyncCall), so a visit is one step whose outcome is  *)
(* that of threadpool_add, or the handler's Thread_Result.  A handler that *)
(* does not come back holds the main thread: its visit is not enabled.     *)
(* That is a read handler that found only a part of a message, an HTTP     *)
(* write handler whose client does not read a response that is longer than *)
(* what the kernels keep, and one that wants lock_file after an earlier    *)
(* call returned with the mutex locked.  SIGPIPE in a send ends it all.    *)
(*                                                                         *)
(* Descriptors are numbers.  The kernel gives accept the lowest free one,  *)
(* so a number names one connection after another, in either table.        *)
(***************************************************************************)
EXTENDS Integers, FiniteSets

CONSTANTS
  Conns,       \* clients, each with one connection
  Again,       \* those that connect again when it is gone, with another one
  Http,        \* those that connect to the HTTP port; the others are simple
  NoConn,
  sockfd_tcp, sockfd_udp, sockfd_tcp_http,
  FdLimit,     \* descriptors the process may have: numbers below FdLimit
  MayStall,    \* clients may stop in the middle of a message or a response
  UrgentFds    \* bound: the descriptors urgent data may come on, on one a pass,
               \* and then no datagram comes

Listeners == {sockfd_tcp, sockfd_udp, sockfd_tcp_http}
ClientFds == {fd \in 0 .. FdLimit - 1 : \A l \in Listeners : fd > l}

ASSUME ServerAssumption ==
  /\ Http \subseteq Conns /\ Again \subseteq Conns /\ NoConn \notin Conns
  /\ FdLimit \in Nat /\ Listeners \subseteq 0 .. FdLimit - 1
  /\ Cardinality(Listeners) = 3
  /\ MayStall \in BOOLEAN /\ UrgentFds \subseteq Nat

VARIABLES
  pc,         \* where main is
  stop, ret_val,
  master, max_fd,
  read_fds, write_fds, except_fds,   \* one pass: what it still has to visit
  select_ret,
  clients, http_clients,   \* descriptors whose table entry is not NULL
  sock,       \* kernel: the connection behind a client descriptor
  conn,       \* kernel: how far each connection got
  data,       \* kernel: what waits to be read from it
  left,       \* kernel: connections whose client has closed
  full,       \* kernel: connections whose client does not read
  request,    \* http_clients[]->request: NULL, to be refused, or for a resource
  lock_file,  \* a handler returned and left the mutex locked
  seen        \* history: sock when select returned, of those still to visit

ready   == <<read_fds, write_fds, except_fds, seen>>
tables  == <<master, clients, http_clients, sock, conn, data, left, full, request, lock_file>>
process == <<pc, stop, ret_val>>
vars == <<pc, stop, ret_val, master, max_fd, read_fds, write_fds, except_fds,
          select_ret, clients, http_clients, sock, conn, data, left, full, request,
          lock_file, seen>>

Looping == pc \in {"select", "pass"}
Over    == pc \in {"cleanup", "destroy", "finished", "failed", "killed"}
Exited  == pc \in {"finished", "failed", "killed"}

\* The sockets listen; no signal handler yet.
Init ==
  /\ pc = "boot" /\ stop = 0 /\ ret_val = 0
  /\ master = {} /\ max_fd = 0
  /\ read_fds = {} /\ write_fds = {} /\ except_fds = {} /\ select_ret = 0
  /\ clients = {} /\ http_clients = {}
  /\ sock = [fd \in ClientFds |-> NoConn]
  /\ conn = [c \in Conns |-> "new"]
  /\ data = [c \in Conns |-> "none"]
  /\ left = {} /\ full = {}
  /\ request = [c \in Conns |-> "none"] /\ lock_file = FALSE
  /\ seen = [fd \in ClientFds |-> NoConn]

-------------------------------------------------------------------------------
(* The clients and the network. *)

Connect(c) ==
  /\ conn[c] = "new" \/ (conn[c] = "gone" /\ c \in Again)
  /\ ~Exited
  /\ conn' = [conn EXCEPT ![c] = "pending"]
  /\ UNCHANGED <<process, master, max_fd, ready, select_ret, clients, http_clients,
                 sock, data, left, full, request, lock_file>>

\* A message arrives, or the first part of one, or the rest of it.
Arrive(c) ==
  /\ conn[c] \in {"pending", "open"} /\ c \notin left /\ data[c] # "whole"
  /\ \E d \in IF MayStall /\ data[c] = "none" THEN {"part", "whole"} ELSE {"whole"} :
       data' = [data EXCEPT ![c] = d]
  /\ UNCHANGED <<process, master, max_fd, ready, select_ret, clients, http_clients,
                 sock, conn, left, full, request, lock_file>>

Leave(c) ==
  /\ conn[c] \in {"pending", "open"} /\ c \notin left
  /\ left' = left \cup {c}
  /\ UNCHANGED <<process, master, max_fd, ready, select_ret, clients, http_clients,
                 sock, conn, data, full, request, lock_file>>

\* An HTTP client does not read the next response, not all of it; or it reads it
\* after all.  (A packet of the simple service fits, if there is room at all.)
StopReading(c) ==
  /\ MayStall /\ c \in Http /\ conn[c] = "open" /\ request[c] = "none"
  /\ full' = full \cup {c}
  /\ UNCHANGED <<process, master, max_fd, ready, select_ret, clients, http_clients,
                 sock, conn, data, left, request, lock_file>>

ReadOn(c) ==
  /\ c \in full
  /\ full' = full \ {c}
  /\ UNCHANGED <<process, master, max_fd, ready, select_ret, clients, http_clients,
                 sock, conn, data, left, request, lock_file>>

\* Ctrl+C: the default action, or handle_sigint.  A select that sleeps returns
\* with an error.
Sigint ==
  /\ ~Exited
  /\ \/ pc = "boot" /\ pc' = "killed" /\ UNCHANGED <<stop, ret_val>>
     \/ pc # "boot" /\ stop' = 1 /\ UNCHANGED <<pc, ret_val>>
     \/ /\ pc = "select" /\ stop' = 1
        /\ ret_val' = -1 /\ pc' = "cleanup"
  /\ UNCHANGED <<tables, max_fd, ready, select_ret>>

-------------------------------------------------------------------------------
(* Up to the loop. *)

setup_signals ==
  /\ pc = "boot" /\ pc' = "setup"
  /\ UNCHANGED <<stop, ret_val, tables, max_fd, ready, select_ret>>

\* threadpool_create, then handle_connections up to its loop; an allocation
\* that fails ends the program.
Setup ==
  /\ pc = "setup"
  /\ \/ /\ pc' = "start"
        /\ master' = Listeners
        /\ max_fd' = CHOOSE l \in Listeners : \A k \in Listeners : k <= l
     \/ pc' = "failed" /\ UNCHANGED <<master, max_fd>>
  /\ UNCHANGED <<stop, ret_val, ready, select_ret, clients, http_clients,
                 sock, conn, data, left, full, request, lock_file>>

\* stop = 0, whatever came before.
StartLoop ==
  /\ pc = "start"
  /\ stop' = 0 /\ pc' = "select"
  /\ UNCHANGED <<ret_val, tables, max_fd, ready, select_ret>>

-------------------------------------------------------------------------------
(* One pass. *)

Pending(l) ==
  {c \in Conns : conn[c] = "pending" /\ l = IF c \in Http THEN sockfd_tcp_http ELSE sockfd_tcp}

Readable(c) == data[c] # "none" \/ c \in left

\* The first max_fd + 1 descriptors of master are looked at.  A client's buffer
\* may be full, the UDP socket can always be written; a datagram or urgent data on
\* one socket come as they please.
Select ==
  /\ pc = "select"
  /\ \E datagram \in BOOLEAN, room \in SUBSET ClientFds,
        urgent \in {{}} \cup {{fd} : fd \in UrgentFds} :
       LET watched == {fd \in master : fd <= max_fd} IN
       /\ room \subseteq watched /\ urgent \subseteq watched /\ (datagram => urgent = {})
       /\ read_fds' = {fd \in watched :
            \/ fd \in {sockfd_tcp, sockfd_tcp_http} /\ Pending(fd) # {}
            \/ fd = sockfd_udp /\ datagram
            \/ fd \in ClientFds /\ sock[fd] # NoConn /\ Readable(sock[fd])}
       /\ write_fds' = room \cup {sockfd_udp}
       /\ except_fds' = urgent
  /\ select_ret' = Cardinality(read_fds') + Cardinality(write_fds') + Cardinality(except_fds')
  /\ seen' = [fd \in ClientFds |-> IF fd \in read_fds' \cup write_fds' \cup except_fds'
                                   THEN sock[fd] ELSE NoConn]
  /\ pc' = "pass"
  /\ UNCHANGED <<stop, ret_val, tables, max_fd>>

Remaining == read_fds \cup write_fds \cup except_fds

\* Mutant: a descriptor is visited once for reading and once for writing.
VisitTwice(fd) ==
  /\ pc = "pass" /\ select_ret > 0
  /\ fd \in Remaining /\ \A g \in Remaining : fd <= g
  /\ select_ret' = select_ret - 1
  /\ read_fds' = read_fds \ {fd}
  /\ write_fds' = IF fd \in read_fds THEN write_fds ELSE write_fds \ {fd}
  /\ except_fds' = except_fds \ {fd}
  /\ seen' = [g \in ClientFds |-> IF g \in Remaining' THEN seen[g] ELSE NoConn]

\* Mutant: the countdown runs twice as fast.
VisitCountsTwice(fd) ==
  /\ pc = "pass" /\ select_ret > 0
  /\ fd \in Remaining /\ \A g \in Remaining : fd <= g
  /\ select_ret' = IF select_ret > 1 THEN select_ret - 2 ELSE 0
  /\ read_fds' = read_fds \ {fd}
  /\ write_fds' = write_fds \ {fd}
  /\ except_fds' = except_fds \ {fd}
  /\ seen' = [g \in ClientFds |-> IF g = fd THEN NoConn ELSE seen[g]]

\* The loop of a pass arrives at fd, the next one in any of the sets.  It only
\* goes up: fd is done with, whatever sets it is in.
Visit(fd) ==
  /\ pc = "pass" /\ select_ret > 0
  /\ fd \in Remaining /\ \A g \in Remaining : fd <= g
  /\ select_ret' = select_ret - 1
  /\ read_fds' = read_fds \ {fd}
  /\ write_fds' = write_fds \ {fd}
  /\ except_fds' = except_fds \ {fd}
  /\ seen' = [g \in ClientFds |-> IF g = fd THEN NoConn ELSE seen[g]]

\* break with ret_val = -1, and what follows it; continue.
Break    == ret_val' = -1 /\ stop' = 1 /\ pc' = "cleanup"
Continue == UNCHANGED process

\* close: the kernel forgets the connections, and what was not read of them;
\* with the table entry goes the request.
Disconnect(cs) ==
  /\ conn' = [c \in Conns |-> IF c \in cs THEN "gone" ELSE conn[c]]
  /\ data' = [c \in Conns |-> IF c \in cs THEN "none" ELSE data[c]]
  /\ request' = [c \in Conns |-> IF c \in cs THEN "none" ELSE request[c]]
  /\ left' = left \ cs /\ full' = full \ cs

\* Mutant: the descriptor is closed but stays in master.
FreeClientKeepBit(fd) ==
  /\ clients' = clients \ {fd} /\ http_clients' = http_clients \ {fd}
  /\ Disconnect({sock[fd]})
  /\ sock' = [sock EXCEPT ![fd] = NoConn]
  /\ UNCHANGED master

\* free_client_tcp_data or free_client_http_data, which close, and FD_CLR.
FreeClient(fd) ==
  /\ clients' = clients \ {fd} /\ http_clients' = http_clients \ {fd}
  /\ Disconnect({sock[fd]})
  /\ sock' = [sock EXCEPT ![fd] = NoConn]
  /\ master' = master \ {fd}

Free == {fd \in ClientFds : sock[fd] = NoConn}

\* Mutant: max_fd stays what it was.
AddClientKeepMax(fd, c) ==
  /\ sock' = [sock EXCEPT ![fd] = c]
  /\ conn' = [conn EXCEPT ![c] = "open"]
  /\ master' = master \cup {fd}
  /\ UNCHANGED <<data, left, full, request>>
  /\ clients' = IF c \in Http THEN clients ELSE clients \cup {fd}
  /\ http_clients' = IF c \in Http THEN http_clients \cup {fd} ELSE http_clients
  /\ UNCHANGED max_fd

AddClient(fd, c) ==
  /\ sock' = [sock EXCEPT ![fd] = c]
  /\ conn' = [conn EXCEPT ![c] = "open"]
  /\ master' = master \cup {fd}
  /\ max_fd' = IF fd > max_fd THEN fd ELSE max_fd
  /\ UNCHANGED <<data, left, full, request>>
  /\ clients' = IF c \in Http THEN clients ELSE clients \cup {fd}
  /\ http_clients' = IF c \in Http THEN http_clients \cup {fd} ELSE http_clients

\* A listening socket is readable: accept one connection into the lowest free
\* descriptor.  If accept fails, for want of a descriptor or because the
\* connection was aborted, or if there is no memory for the entry, the loop ends.
Accept(l) ==
  /\ l \in {sockfd_tcp, sockfd_tcp_http} \cap read_fds
  /\ Visit(l)
  /\ \E c \in Pending(l) :
     \/ UNCHANGED <<tables, max_fd>> /\ Break
     \/ \E fd \in Free :
          /\ \A g \in Free : fd <= g
          /\ \/ AddClient(fd, c) /\ Continue
             \/ /\ Disconnect({c})
                /\ max_fd' = IF fd > max_fd THEN fd ELSE max_fd
                /\ UNCHANGED <<master, clients, http_clients, sock>>
                /\ Break
          /\ UNCHANGED lock_file

\* What follows a handler call for a client: refused by threadpool_add, no
\* Thread_Result, or the value of the result.  waiting is what the handler left
\* to be read, kept the request it leaves in the table.
AfterClientCall(fd, outcome, waiting, kept) ==
  /\ IF outcome \in {"refused", "error", "closed"}
     THEN FreeClient(fd)
     ELSE /\ data' = [data EXCEPT ![sock[fd]] = waiting]
          /\ request' = [request EXCEPT ![sock[fd]] = kept]
          /\ UNCHANGED <<master, clients, http_clients, sock, conn, left, full>>
  /\ IF outcome \in {"refused", "null"} THEN Break ELSE Continue

\* No room in the ring or no memory, before the handler did anything.
CallFails(fd) ==
  /\ fd \in ClientFds \cap (read_fds \cup write_fds)
  /\ Visit(fd)
  /\ sock[fd] # NoConn
  /\ \E outcome \in {"refused", "null"} :
       AfterClientCall(fd, outcome, data[sock[fd]], request[sock[fd]])
  /\ UNCHANGED <<max_fd, lock_file>>

\* A read handler takes one message, or finds the end of the stream.  It does
\* not come back from half a message.
ReadClient(fd) ==
  /\ fd \in ClientFds \cap read_fds
  /\ Visit(fd)
  /\ LET c == sock[fd] IN
     /\ c # NoConn
     /\ \/ /\ data[c] = "whole"
           /\ \E outcome \in {"success", "error"},
                 kept \in IF c \in Http THEN {"bad", "resource"} ELSE {"none"} :
                AfterClientCall(fd, outcome, "none", kept)
        \/ /\ data[c] # "whole" /\ c \in left
           /\ \E outcome \in {"closed", "error"} :
                AfterClientCall(fd, outcome, data[c], request[c])
  /\ UNCHANGED <<max_fd, lock_file>>

\* What a write handler sends: always something to a simple client.
Answers(c) == c \notin Http \/ request[c] # "none"

\* It comes back if it gets the mutex that it needs for a resource, and if the
\* client reads that, or has closed.
Returns(c) == request[c] = "resource" => ~lock_file /\ (c \notin full \/ c \in left)

\* A write handler sends, or has nothing to answer yet.  Some of its errors leave
\* the mutex locked; a client that has closed may cost the process (SIGPIPE).
WriteClient(fd) ==
  /\ fd \in (ClientFds \cap write_fds) \ read_fds
  /\ Visit(fd)
  /\ LET c == sock[fd] IN
     /\ c # NoConn /\ Returns(c)
     /\ \/ AfterClientCall(fd, "success", data[c], "none") /\ UNCHANGED lock_file
        \/ /\ Answers(c) /\ AfterClientCall(fd, "error", data[c], "none")
           /\ lock_file' \in IF request[c] = "resource" THEN BOOLEAN ELSE {lock_file}
        \/ /\ Answers(c) /\ c \in left
           /\ pc' = "killed" /\ UNCHANGED <<stop, ret_val, tables>>
  /\ UNCHANGED max_fd

\* The heartbeat handlers: an error of theirs is only reported.
Heartbeat ==
  /\ Visit(sockfd_udp)
  /\ Break \/ Continue
  /\ UNCHANGED <<tables, max_fd>>

\* A socket is in no set but except_fds.
Exception(fd) ==
  /\ fd \notin read_fds \cup write_fds
  /\ Visit(fd)
  /\ IF fd \in Listeners THEN UNCHANGED tables /\ Break
     ELSE sock[fd] # NoConn /\ FreeClient(fd) /\ Continue /\ UNCHANGED lock_file
  /\ UNCHANGED max_fd

\* Mutant: stop is not tested, only an error ends the loop.
PassEndsForever ==
  /\ pc = "pass" /\ (select_ret = 0 \/ Remaining = {})
  /\ pc' = "select"
  /\ select_ret' = 0
  /\ UNCHANGED <<stop, ret_val, tables, max_fd, ready>>

\* The loop of the pass ends, and stop is tested.
PassEnds ==
  /\ pc = "pass" /\ (select_ret = 0 \/ Remaining = {})
  /\ pc' = IF stop = 0 THEN "select" ELSE "cleanup"
  /\ select_ret' = 0
  /\ UNCHANGED <<stop, ret_val, tables, max_fd, ready>>

-------------------------------------------------------------------------------
(* After the loop. *)

\* Mutant: only the simple clients are freed.
FreeTablesTcpOnly ==
  /\ sock' = [fd \in ClientFds |-> IF fd \in clients THEN NoConn ELSE sock[fd]]
  /\ Disconnect({sock[fd] : fd \in clients})
  /\ clients' = {} /\ http_clients' = {} /\ master' = {}

\* free_clients_tcp_data and free_clients_http_data close every client's socket.
FreeTables ==
  /\ sock' = [fd \in ClientFds |->
                IF fd \in clients \cup http_clients THEN NoConn ELSE sock[fd]]
  /\ Disconnect({sock[fd] : fd \in clients \cup http_clients})
  /\ clients' = {} /\ http_clients' = {} /\ master' = {}

Cleanup ==
  /\ pc = "cleanup"
  /\ FreeTables
  /\ pc' = IF ret_val < 0 THEN "failed" ELSE "destroy"
  /\ UNCHANGED <<stop, ret_val, max_fd, ready, select_ret, lock_file>>

\* threadpool_destroy, which comes back (Threadpool), and the last closes.
Finish ==
  /\ pc = "destroy" /\ pc' = "finished"
  /\ UNCHANGED <<stop, ret_val, tables, max_fd, ready, select_ret>>

-------------------------------------------------------------------------------
Main ==
  \/ setup_signals \/ Setup \/ StartLoop \/ Select
  \/ \E fd \in 0 .. max_fd : Accept(fd) \/ ReadClient(fd) \/ WriteClient(fd) \/ Exception(fd)
  \/ Heartbeat \/ PassEnds \/ Cleanup \/ Finish

Client(c) == Connect(c) \/ Arrive(c) \/ Leave(c) \/ StopReading(c) \/ ReadOn(c)

Terminated == Exited /\ UNCHANGED vars

Next ==
  \/ \E c \in Conns : Client(c)
  \/ \E fd \in 0 .. max_fd : CallFails(fd)
  \/ Sigint \/ Main \/ Terminated

Spec == Init /\ [][Next]_vars

\* The main thread takes its next step if it can; a failing allocation is not
\* owed.  Nothing is assumed of the clients: each may stop anywhere, for ever.
FairSpec == Spec /\ WF_vars(Main)

-------------------------------------------------------------------------------
(* Properties. *)

TypeOK ==
  /\ pc \in {"boot", "setup", "start", "select", "pass", "cleanup", "destroy",
             "finished", "failed", "killed"}
  /\ stop \in {0, 1} /\ ret_val \in {-1, 0}
  /\ master \subseteq Listeners \cup ClientFds
  /\ max_fd \in 0 .. FdLimit - 1
  /\ read_fds \subseteq Listeners \cup ClientFds
  /\ write_fds \subseteq Listeners \cup ClientFds
  /\ except_fds \subseteq Listeners \cup ClientFds
  /\ select_ret \in Nat
  /\ clients \subseteq ClientFds /\ http_clients \subseteq ClientFds
  /\ sock \in [ClientFds -> Conns \cup {NoConn}]
  /\ seen \in [ClientFds -> Conns \cup {NoConn}]
  /\ conn \in [Conns -> {"new", "pending", "open", "gone"}]
  /\ data \in [Conns -> {"none", "part", "whole"}]
  /\ left \subseteq Conns /\ full \subseteq Conns
  /\ request \in [Conns -> {"none", "bad", "resource"}]
  /\ lock_file \in BOOLEAN

\* The bit in master, the table entry and the socket live and die together,
\* in the table of the connection's own port, although a number passes from
\* one connection to the next and from one table to the other.  A stale bit
\* would make select fail, a stale entry would close a stranger's socket.
TablesAgree ==
  /\ clients      = {fd \in ClientFds : sock[fd] \in Conns \ Http}
  /\ http_clients = {fd \in ClientFds : sock[fd] \in Http}
  /\ Looping => master = Listeners \cup clients \cup http_clients
  /\ \A c \in Conns : conn[c] = "open" <=> \E fd \in ClientFds : sock[fd] = c
  /\ \A fd, fe \in ClientFds : sock[fd] = sock[fe] /\ sock[fd] # NoConn => fd = fe

\* What select said is still so at the visit: no descriptor is visited after
\* its connection was closed, nor for a later connection with its number.
SnapshotFresh ==
  pc = "pass" => \A fd \in Remaining \cap ClientFds : sock[fd] = seen[fd] /\ sock[fd] # NoConn

\* The countdown of select_ret never ends a pass early, although a descriptor
\* counts once for each set it is in and is visited once.
NobodySkipped == pc = "pass" => select_ret >= Cardinality(Remaining)

\* However the program comes to its end by itself, after SIGINT, after an accept
\* without a descriptor left or an allocation that failed, no connection is open
\* then: it closes those of both tables, and it is in one of them that each is.
CleanExit == pc \in {"destroy", "finished", "failed"} => \A c \in Conns : conn[c] # "open"

\* The next descriptor of the pass is that of c, whose handler waits for c: for
\* the rest of a message, or for it to read a response.
WaitsFor(c) ==
  pc = "pass" /\ select_ret > 0 /\
  \E fd \in Remaining \cap ClientFds :
    /\ sock[fd] = c /\ c \notin left /\ \A g \in Remaining : fd <= g
    /\ IF fd \in read_fds THEN data[c] = "part"
       ELSE fd \in write_fds /\ request[c] = "resource" /\ c \in full

\* It is that of a client who wants a resource, and the mutex was left locked.
LockLost ==
  pc = "pass" /\ select_ret > 0 /\ lock_file /\
  \E fd \in (Remaining \cap ClientFds) \ read_fds :
    fd \in write_fds /\ request[sock[fd]] = "resource" /\ \A g \in Remaining : fd <= g

\* There are two ways for the program to stand still, and each is real: from some
\* moment on it waits for one and the same client, which does not go on with its
\* message or does not read, or it waits for a mutex that nobody will release.
StandsStill == (\E c \in Conns : <>[]WaitsFor(c)) \/ <>[]LockLost

\* A client that has something for the server: it connects, or its message is
\* there, or its end.
Wants(c) ==
  \/ conn[c] = "pending"
  \/ conn[c] = "open" /\ (data[c] = "whole" \/ c \in left)

\* Unless it comes to stand still in one of these two ways, whoever connects,
\* sends or closes is noticed as long as the loop runs: accepted, read and closed
\* in the end, at one visit a pass, whatever the others do, also if they pause in
\* the middle of a message or of a response.
EveryClientServed ==
  StandsStill \/ \A c \in Conns : Wants(c) ~> ~Wants(c) \/ Over

\* A SIGINT that finds the loop running ends the program, unless that stands
\* still in one of these two ways.
StopEnds == StandsStill \/ (Looping /\ stop = 1 ~> Exited)
===============================================================================
