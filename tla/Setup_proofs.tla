----------------------------- MODULE Setup_proofs -----------------------------
(***************************************************************************)
(* What holds of the way to the sockets for any number of processes, all   *)
(* argument lists and all hosts: sockets that are kept, sockets that are   *)
(* lost, and who is refused an address.                                    *)
(*                                                                         *)
(* A process looks at no variable of another; only the kernel compares     *)
(* their sockets.  So the invariant speaks of one process at a time: what  *)
(* main has, what the setup call has in hand, and what else is open.       *)
(*                                                                         *)
(* What is read of a command line is at the end.                           *)
(***************************************************************************)
EXTENDS MCSetup, FiniteSetTheorems, WellFoundedInduction, TLAPS

-------------------------------------------------------------------------------
(* The invariant. *)

Labels == {"ended", "resolve", "socket", "setsockopt", "bind", "listen", "bound", "connect",
           "returned", "pool", "works"}

\* A socket has these fields, and may be in use at an address only if another
\* one may use it too.
IsSocket(s) ==
  /\ s \in [proto : {"tcp", "udp"}, state : {"open", "bound", "listening", "connected"},
            reuse : BOOLEAN, addr : {s.addr}, peer : {s.peer}]
  /\ s.state \in {"bound", "listening"} => s.reuse

\* The descriptors of a process and what they stand for.
IsTable(t) ==
  /\ t = [fd \in DOMAIN t |-> t[fd]]
  /\ IsFiniteSet(DOMAIN t)
  /\ \A fd \in DOMAIN t : fd \in Int /\ fd >= 3 /\ IsSocket(t[fd])

Types ==
  /\ runs \in [Procs -> Programs] /\ pc \in [Procs -> Labels] /\ call \in [Procs -> Calls]
  /\ known \in [Procs -> [Calls -> Int]] /\ sockfd \in [Procs -> Int]
  /\ config = [p \in Procs |-> config[p]] /\ addrs = [p \in Procs |-> addrs[p]]
  /\ sockets = [p \in Procs |-> sockets[p]]
  /\ \A p \in Procs : IsTable(sockets[p])

\* Where a process can be.
Labelled(p) ==
  /\ pc[p] \in {"ended"} \/ runs[p] \in {"server", "client", "heartbeat_client"}
  /\ runs[p] = "server" /\ pc[p] # "ended" =>
       /\ call[p] \in {"tcp", "udp", "http"} /\ pc[p] # "connect"
       /\ pc[p] \in {"pool", "works"} => call[p] = "http"
       /\ pc[p] = "listen" => call[p] # "udp"
       /\ pc[p] = "bound" => call[p] = "udp"
  /\ runs[p] = "client" /\ pc[p] # "ended" =>
       /\ call[p] = "external"
       /\ pc[p] \in {"resolve", "socket", "connect", "returned", "works"}
  /\ runs[p] = "heartbeat_client" /\ pc[p] # "ended" =>
       \/ /\ call[p] = "local"
          /\ pc[p] \in {"resolve", "socket", "setsockopt", "bind", "bound", "returned"}
       \/ call[p] = "external" /\ pc[p] \in {"resolve", "returned", "works"}
  /\ pc[p] = "ended" => DOMAIN sockets[p] = {}

\* The calls that main has a result of.
Finished(p) ==
  CASE pc[p] = "ended" -> {}
    [] pc[p] # "ended" /\ runs[p] = "server" ->
         IF call[p] = "tcp" THEN {}
         ELSE IF call[p] = "udp" THEN {"tcp"}
         ELSE IF pc[p] \in {"pool", "works"} THEN {"tcp", "udp", "http"} ELSE {"tcp", "udp"}
    [] pc[p] # "ended" /\ runs[p] = "client" -> IF pc[p] = "works" THEN {"external"} ELSE {}
    [] pc[p] # "ended" /\ runs[p] = "heartbeat_client" ->
         IF call[p] = "external" THEN {"local"} ELSE {}

\* The place a call asks for: a host's addresses and a port.
HostFor(p, c) == IF c = "http" THEN INADDR_ANY ELSE config[p][HostOf(c)]
AddressesOf(host) ==
  IF host \in DOMAIN Addresses THEN {Addresses[host][i] : i \in 1 .. Len(Addresses[host])} ELSE {}
Place(p, c, addr) == addr.ip \in AddressesOf(HostFor(p, c)) /\ addr.port = config[p][PortOf(c)]

\* What a call that succeeds makes of a socket.
Wanted(p, c, s) ==
  CASE c \in {"tcp", "http"}  -> s.proto = "tcp" /\ s.state = "listening" /\ Place(p, c, s.addr)
    [] c \in {"udp", "local"} -> s.proto = "udp" /\ s.state = "bound" /\ Place(p, c, s.addr)
    [] c = "external"         -> s.proto = "tcp" /\ s.state = "connected" /\ Place(p, c, s.peer)

\* What main has: the sockets of the calls that are over, each its own; only
\* what became of HTTP it did not look at.
KnownSockets(p) ==
  /\ \A c \in Calls :
       IF c \in Finished(p)
       THEN \/ known[p][c] \in DOMAIN sockets[p] /\ Wanted(p, c, sockets[p][known[p][c]])
            \/ c = "http" /\ known[p][c] = -1
       ELSE known[p][c] = 0
  /\ \A c, d \in Finished(p) : known[p][c] = known[p][d] => c = d

Fresh(p) == sockfd[p] \in DOMAIN sockets[p] /\ \A c \in Calls : known[p][c] # sockfd[p]

\* What the call has in hand: the addresses it still has to try, and a socket;
\* and what it returned.
Trying(p) ==
  /\ pc[p] \in {"socket", "setsockopt", "bind", "listen", "connect"} =>
       addrs[p] \in Seq(AddressesOf(Host(p)))
  /\ pc[p] \in {"setsockopt", "bind", "listen", "connect"} => addrs[p] # <<>>

InHand(p) ==
  LET s == sockets[p][sockfd[p]] IN
  /\ pc[p] \in {"setsockopt", "bind", "listen", "bound", "connect"} => Fresh(p)
  /\ pc[p] \in {"setsockopt", "bind", "connect"} => s.state = "open"
  /\ pc[p] \in {"setsockopt", "bind"} =>
       s.proto = IF call[p] \in {"tcp", "http"} THEN "tcp" ELSE "udp"
  /\ pc[p] = "setsockopt" => ~ s.reuse
  /\ pc[p] = "bind" => s.reuse
  /\ pc[p] = "connect" => s.proto = "tcp"
  /\ pc[p] = "listen" => s.state = "bound" /\ s.proto = "tcp" /\ s.addr = Addr(p)
  /\ pc[p] = "bound" => Wanted(p, call[p], s)

Returned(p) ==
  LET s == sockets[p][sockfd[p]] IN
  /\ pc[p] = "returned" /\ sockfd[p] # -1 /\ runs[p] # "heartbeat_client" =>
       Fresh(p) /\ Wanted(p, call[p], s)
  /\ pc[p] = "returned" /\ sockfd[p] # -1 /\ runs[p] = "heartbeat_client" =>
       call[p] = "external" /\ sockfd[p] = known[p].local /\ Place(p, "external", s.peer)
  /\ pc[p] = "works" /\ runs[p] = "client" => sockfd[p] = known[p].external
  /\ pc[p] = "works" /\ runs[p] = "heartbeat_client" =>
       sockfd[p] = known[p].local /\ Place(p, "external", s.peer)

\* What else is open; at a result of -1 for its own address the heartbeat client
\* ends.
Holding(p) == pc[p] \in {"setsockopt", "bind", "listen", "bound", "connect", "returned"}
HttpLost(p) ==
  \/ known[p].http = -1
  \/ pc[p] = "returned" /\ sockfd[p] = -1 /\ call[p] \in {"tcp", "http"}

NoStrays(p) ==
  \A fd \in DOMAIN sockets[p] :
    \/ \E c \in Calls : known[p][c] = fd
    \/ Holding(p) /\ fd = sockfd[p]
    \/ pc[p] = "returned" /\ sockfd[p] = -1 /\ call[p] = "local"
    \/ runs[p] # "client" /\ \/ GivenUp(<<p, fd>>)
                             \/ Unheard(<<p, fd>>) /\ HttpLost(p)

ProcessInv(p) ==
  Labelled(p) /\ KnownSockets(p) /\ Trying(p) /\ InHand(p) /\ Returned(p) /\ NoStrays(p)

IInv == Types /\ \A p \in Procs : ProcessInv(p)

-------------------------------------------------------------------------------
(* Descriptors. *)

LEMMA LeastNumber ==
  ASSUME NEW T, T \subseteq Nat, T # {}
  PROVE  \E n \in T : \A m \in T : n <= m
<1>1. IsWellFoundedOn({ss \in Nat \X Nat : ss[1] < ss[2]}, Nat)
  BY NatLessThanWellFounded DEF OpToRel
<1>2. PICK n \in T : \A m \in T : ~ (<<m, n>> \in {ss \in Nat \X Nat : ss[1] < ss[2]})
  BY <1>1, WFMin
<1>3. ASSUME NEW m \in T PROVE ~ (m < n)
  <2>1. <<m, n>> \in Nat \X Nat
    OBVIOUS
  <2>2. ~ (<<m, n>>[1] < <<m, n>>[2])
    BY <1>2, <2>1
  <2> QED
    BY <2>2
<1>4. n \in Nat /\ \A m \in T : m \in Nat
  OBVIOUS
<1>5. \A m \in T : n <= m
  BY <1>3, <1>4
<1> QED
  BY <1>5

\* There is always a descriptor for FreeFd to choose, and it is not in use.
LEMMA FreeFdIsFree ==
  ASSUME NEW p \in Procs, IsTable(sockets[p])
  PROVE  FreeFd(p) \in Int /\ FreeFd(p) >= 3 /\ FreeFd(p) \notin DOMAIN sockets[p]
<1> DEFINE used == DOMAIN sockets[p]
           n == Cardinality(used)
           above == 3 .. 3 + n
           Lowest(fd) == fd \notin used /\ \A lower \in 3 .. fd - 1 : lower \in used
<1>1. IsFiniteSet(used) /\ n \in Nat
  <2>1. IsFiniteSet(used)
    BY DEF IsTable
  <2> QED
    BY <2>1, FS_CardinalityType
<1>2. ~ (above \subseteq used)
  <2> SUFFICES ASSUME above \subseteq used PROVE FALSE
    OBVIOUS
  <2> HIDE DEF n, used
  <2>1. Cardinality(above) = n + 1
    BY <1>1, FS_Interval
  <2>2. above \in SUBSET used
    OBVIOUS
  <2>3. Cardinality(above) <= n
    BY <1>1, <2>2, FS_Subset DEF n
  <2> QED
    BY <1>1, <2>1, <2>3
<1>3. \E fd \in above : Lowest(fd)
  <2> DEFINE T == {fd \in above : fd \notin used}
  <2>1. T \subseteq Nat /\ T # {}
    BY <1>1, <1>2
  <2>2. PICK fd \in T : \A m \in T : fd <= m
    <3> HIDE DEF T
    <3> QED
      BY <2>1, LeastNumber
  <2>3. ASSUME NEW lower \in 3 .. fd - 1 PROVE lower \in used
    <3>1. lower \in above /\ ~ (fd <= lower)
      BY <1>1, <2>2
    <3> QED
      BY <2>2, <3>1
  <2> QED
    BY <2>2, <2>3
<1>4. FreeFd(p) \in above /\ Lowest(FreeFd(p))
  <2>1. FreeFd(p) = CHOOSE fd \in above : Lowest(fd)
    BY DEF FreeFd
  <2> HIDE DEF Lowest, above
  <2> QED
    BY <1>3, <2>1
<1> QED
  BY <1>1, <1>4

\* What SetSocket makes of the table: a socket more, or another one in its place;
\* and what close does.
With(t, fd, s) == [n \in DOMAIN t \cup {fd} |-> IF n = fd THEN s ELSE t[n]]

LEMMA TableGrows ==
  ASSUME NEW t, IsTable(t), NEW fd \in Int, fd >= 3, NEW s, IsSocket(s)
  PROVE  IsTable(With(t, fd, s))
<1> DEFINE u == With(t, fd, s)
<1>1. /\ DOMAIN u = DOMAIN t \cup {fd} /\ u[fd] = s /\ u = [x \in DOMAIN u |-> u[x]]
      /\ \A x \in DOMAIN t \ {fd} : u[x] = t[x]
  BY DEF With
<1>2. IsFiniteSet(DOMAIN t \cup {fd})
  BY FS_AddElement DEF IsTable
<1> HIDE DEF u
<1>3. \A x \in DOMAIN u : x \in Int /\ x >= 3 /\ IsSocket(u[x])
  BY <1>1 DEF IsTable
<1>4. IsTable(u)
  BY <1>1, <1>2, <1>3 DEF IsTable
<1> QED
  BY <1>4 DEF u

LEMMA TableShrinks ==
  ASSUME NEW t, IsTable(t), NEW fd
  PROVE  IsTable(Restrict(t, DOMAIN t \ {fd}))
<1> DEFINE u == Restrict(t, DOMAIN t \ {fd})
<1>1. /\ DOMAIN u = DOMAIN t \ {fd} /\ u = [x \in DOMAIN u |-> u[x]]
      /\ \A x \in DOMAIN t \ {fd} : u[x] = t[x]
  BY DEF Restrict
<1>2. IsFiniteSet(DOMAIN u)
  BY <1>1, FS_RemoveElement DEF IsTable
<1> HIDE DEF u
<1>3. \A x \in DOMAIN u : x \in Int /\ x >= 3 /\ IsSocket(u[x])
  BY <1>1 DEF IsTable
<1>4. IsTable(u)
  BY <1>1, <1>2, <1>3 DEF IsTable
<1> QED
  BY <1>4 DEF u

LEMMA NoSockets == IsTable(<<>>) /\ DOMAIN <<>> = {}
<1>1. DOMAIN <<>> = {}
  OBVIOUS
<1>2. <<>> = [fd \in DOMAIN <<>> |-> <<>>[fd]]
  BY <1>1
<1> QED
  BY <1>1, <1>2, FS_EmptySet DEF IsTable

\* What can become of the fields of a socket.
LEMMA SocketKinds ==
  /\ \A proto \in {"tcp", "udp"} : IsSocket(FreshSocket(proto))
  /\ \A s : IsSocket(s) => IsSocket([s EXCEPT !.reuse = TRUE])
  /\ \A s, a : IsSocket(s) /\ s.reuse => IsSocket([s EXCEPT !.state = "bound", !.addr = a])
  /\ \A s : IsSocket(s) /\ s.reuse => IsSocket([s EXCEPT !.state = "listening"])
  /\ \A s, a : IsSocket(s) => IsSocket([s EXCEPT !.state = "connected", !.peer = a])
  /\ \A s, a : IsSocket(s) => IsSocket([s EXCEPT !.peer = a])
<1>1. \A proto \in {"tcp", "udp"} : IsSocket(FreshSocket(proto))
  BY DEF IsSocket, FreshSocket
<1>2. \A s : IsSocket(s) => IsSocket([s EXCEPT !.reuse = TRUE])
  BY DEF IsSocket
<1>3. \A s, a : IsSocket(s) /\ s.reuse => IsSocket([s EXCEPT !.state = "bound", !.addr = a])
  BY DEF IsSocket
<1>4. \A s : IsSocket(s) /\ s.reuse => IsSocket([s EXCEPT !.state = "listening"])
  BY DEF IsSocket
<1>5. \A s, a : IsSocket(s) => IsSocket([s EXCEPT !.state = "connected", !.peer = a])
  BY DEF IsSocket
<1>6. \A s, a : IsSocket(s) => IsSocket([s EXCEPT !.peer = a])
  BY DEF IsSocket
<1> QED
  BY <1>1, <1>2, <1>3, <1>4, <1>5, <1>6

-------------------------------------------------------------------------------
(* One step of one process. *)

\* p comes to these values, and no other process to any.
Moves(p, r, g, l, c, as, fd, k, t) ==
  /\ runs' = [runs EXCEPT ![p] = r] /\ config' = [config EXCEPT ![p] = g]
  /\ pc' = [pc EXCEPT ![p] = l] /\ call' = [call EXCEPT ![p] = c]
  /\ addrs' = [addrs EXCEPT ![p] = as] /\ sockfd' = [sockfd EXCEPT ![p] = fd]
  /\ known' = [known EXCEPT ![p] = k] /\ sockets' = [sockets EXCEPT ![p] = t]

\* p after it.
Now(p, r, g, l, c, as, fd, k, t) ==
  /\ runs'[p] = r /\ config'[p] = g /\ pc'[p] = l /\ call'[p] = c
  /\ addrs'[p] = as /\ sockfd'[p] = fd /\ known'[p] = k /\ sockets'[p] = t

LEMMA Moved ==
  ASSUME Types, NEW p \in Procs,
         NEW r \in Programs, NEW g, NEW l \in Labels, NEW c \in Calls, NEW as, NEW fd \in Int,
         NEW k \in [Calls -> Int], NEW t, IsTable(t),
         Moves(p, r, g, l, c, as, fd, k, t)
  PROVE  /\ Types' /\ Now(p, r, g, l, c, as, fd, k, t)
         /\ \A q \in Procs \ {p} :
              Now(q, runs[q], config[q], pc[q], call[q], addrs[q], sockfd[q], known[q], sockets[q])
<1>1. Now(p, r, g, l, c, as, fd, k, t)
  BY DEF Moves, Now, Types
<1>2. ASSUME NEW q \in Procs \ {p}
      PROVE  Now(q, runs[q], config[q], pc[q], call[q], addrs[q], sockfd[q], known[q], sockets[q])
  BY DEF Moves, Now, Types
<1>3. /\ runs' \in [Procs -> Programs] /\ pc' \in [Procs -> Labels]
      /\ call' \in [Procs -> Calls]
  BY DEF Moves, Types
<1>4. known' \in [Procs -> [Calls -> Int]] /\ sockfd' \in [Procs -> Int]
  BY DEF Moves, Types
<1>5. /\ config' = [q \in Procs |-> config'[q]] /\ addrs' = [q \in Procs |-> addrs'[q]]
      /\ sockets' = [q \in Procs |-> sockets'[q]]
  BY DEF Moves, Types
<1>6. ASSUME NEW q \in Procs PROVE IsTable(sockets'[q])
  <2>1. CASE q = p
    BY <1>1, <2>1 DEF Now
  <2>2. CASE q # p
    BY <1>2, <2>2 DEF Now, Types
  <2> QED
    BY <2>1, <2>2
<1>7. Types'
  BY <1>3, <1>4, <1>5, <1>6 DEF Types
<1> QED
  BY <1>1, <1>2, <1>7

\* What holds of a process that did not move still holds.
LEMMA Stays ==
  ASSUME NEW p \in Procs, ProcessInv(p), call[p] \in Calls,
         Now(p, runs[p], config[p], pc[p], call[p], addrs[p], sockfd[p], known[p], sockets[p])
  PROVE  ProcessInv(p)'
<1> USE DEF Now
<1>1. Labelled(p)'
  BY DEF ProcessInv, Labelled
<1>2. Finished(p)' = Finished(p)
  BY DEF Finished
<1>3. \A c \in Calls : \A a : Place(p, c, a)' <=> Place(p, c, a)
  BY DEF Place, HostFor
<1>4. \A c \in Calls : \A s : Wanted(p, c, s)' <=> Wanted(p, c, s)
  BY <1>3 DEF Wanted
<1>5. KnownSockets(p)'
  BY <1>2, <1>4 DEF ProcessInv, KnownSockets
<1>6. Host(p)' = Host(p) /\ Addr(p)' = Addr(p)
  BY DEF Host, Addr, Port
<1>7. Trying(p)'
  BY <1>6 DEF ProcessInv, Trying
<1>8. Fresh(p)' <=> Fresh(p)
  BY DEF Fresh
<1>9. InHand(p)'
  BY <1>4, <1>6, <1>8 DEF ProcessInv, InHand
<1>10. Returned(p)'
  <2>1. \A a : Place(p, "external", a)' <=> Place(p, "external", a)
    BY <1>3 DEF Calls
  <2> QED
    BY <1>4, <1>8, <2>1 DEF ProcessInv, Returned
<1>11. NoStrays(p)'
  BY DEF ProcessInv, NoStrays, Holding, HttpLost, GivenUp, Unheard, Sock
<1> QED
  BY <1>1, <1>5, <1>7, <1>9, <1>10, <1>11 DEF ProcessInv

LEMMA StepKeeps ==
  ASSUME IInv, NEW p \in Procs,
         NEW r \in Programs, NEW g, NEW l \in Labels, NEW c \in Calls, NEW as, NEW fd \in Int,
         NEW k \in [Calls -> Int], NEW t, IsTable(t),
         Moves(p, r, g, l, c, as, fd, k, t),
         Now(p, r, g, l, c, as, fd, k, t) => ProcessInv(p)'
  PROVE  IInv'
<1>1. /\ Types' /\ Now(p, r, g, l, c, as, fd, k, t)
      /\ \A q \in Procs \ {p} :
           Now(q, runs[q], config[q], pc[q], call[q], addrs[q], sockfd[q], known[q], sockets[q])
  BY Moved DEF IInv
<1>2. ASSUME NEW q \in Procs PROVE ProcessInv(q)'
  <2>1. CASE q = p
    BY <1>1, <2>1
  <2>2. CASE q # p
    <3>1. call[q] \in Calls /\ ProcessInv(q)
      BY DEF IInv, Types
    <3> QED
      BY <1>1, <2>2, <3>1, Stays
  <2> QED
    BY <2>1, <2>2
<1> QED
  BY <1>1, <1>2 DEF IInv

\* What does not change is set to what it was.
LEMMA Unmoved ==
  ASSUME Types, NEW p \in Procs
  PROVE  /\ runs = [runs EXCEPT ![p] = runs[p]] /\ config = [config EXCEPT ![p] = config[p]]
         /\ pc = [pc EXCEPT ![p] = pc[p]] /\ call = [call EXCEPT ![p] = call[p]]
         /\ addrs = [addrs EXCEPT ![p] = addrs[p]]
         /\ sockfd = [sockfd EXCEPT ![p] = sockfd[p]]
         /\ known = [known EXCEPT ![p] = known[p]]
         /\ sockets = [sockets EXCEPT ![p] = sockets[p]]
BY DEF Types

LEMMA TypesOf ==
  ASSUME IInv, NEW p \in Procs
  PROVE  /\ Types /\ ProcessInv(p) /\ IsTable(sockets[p])
         /\ runs[p] \in Programs /\ pc[p] \in Labels /\ call[p] \in Calls
         /\ sockfd[p] \in Int /\ known[p] \in [Calls -> Int]
         /\ \A x \in DOMAIN sockets[p] : x \in Int /\ x >= 3 /\ IsSocket(sockets[p][x])
<1>1. Types /\ ProcessInv(p)
  BY DEF IInv
<1>2. IsTable(sockets[p])
  BY <1>1 DEF Types
<1> QED
  BY <1>1, <1>2 DEF Types, IsTable

-------------------------------------------------------------------------------
(* The setup calls.  A step of one leaves alone what main knows. *)

InCall == Labels \ {"ended", "pool", "works"}

LEMMA WithinCall ==
  ASSUME Types, NEW p \in Procs, ProcessInv(p),
         NEW l \in InCall, NEW as, NEW fd \in Int, NEW t,
         pc[p] \in InCall,
         Now(p, runs[p], config[p], l, call[p], as, fd, known[p], t),
         \A x \in DOMAIN sockets[p] : (\E c \in Calls : known[p][c] = x) =>
           x \in DOMAIN t /\ t[x] = sockets[p][x]
  PROVE  /\ KnownSockets(p)' /\ Host(p)' = Host(p) /\ Port(p)' = Port(p)
         /\ \A c \in Calls : \A a : Place(p, c, a)' <=> Place(p, c, a)
         /\ \A c \in Calls : \A s : Wanted(p, c, s)' <=> Wanted(p, c, s)
<1>1. Finished(p)' = Finished(p)
  BY DEF Finished, InCall, Now
<1>2. \A c \in Calls : \A a : Place(p, c, a)' <=> Place(p, c, a)
  BY DEF Place, HostFor, Now
<1>3. \A c \in Calls : \A s : Wanted(p, c, s)' <=> Wanted(p, c, s)
  BY <1>2 DEF Wanted
<1>4. KnownSockets(p)'
  <2>1. \A c \in Calls : known[p][c] \in DOMAIN sockets[p] =>
          known[p][c] \in DOMAIN t /\ t[known[p][c]] = sockets[p][known[p][c]]
    OBVIOUS
  <2>2. ASSUME NEW c \in Calls
        PROVE  IF c \in Finished(p)
               THEN \/ known[p][c] \in DOMAIN t /\ Wanted(p, c, t[known[p][c]])
                    \/ c = "http" /\ known[p][c] = -1
               ELSE known[p][c] = 0
    BY <2>1 DEF ProcessInv, KnownSockets
  <2>3. \A c, d \in Finished(p) : known[p][c] = known[p][d] => c = d
    BY DEF ProcessInv, KnownSockets
  <2> QED
    BY <1>1, <1>3, <2>2, <2>3 DEF KnownSockets, Now
<1>5. Host(p)' = Host(p) /\ Port(p)' = Port(p)
  BY DEF Host, Port, Now
<1> QED
  BY <1>2, <1>3, <1>4, <1>5

\* A call that returns -1.
LEMMA ReturnsMinusOne ==
  ASSUME IInv, NEW p \in Procs, pc[p] \in {"resolve", "socket", "listen", "bound"},
         pc[p] = "resolve" => runs[p] # "heartbeat_client" \/ call[p] = "local",
         pc[p] = "bound" => call[p] = "local",
         Return(p, -1), UNCHANGED <<runs, config, call, known, kernel>>
  PROVE  IInv'
<1>1. /\ Types /\ ProcessInv(p) /\ IsTable(sockets[p])
      /\ runs[p] \in Programs /\ call[p] \in Calls /\ known[p] \in [Calls -> Int]
  BY TypesOf
<1>2. Moves(p, runs[p], config[p], "returned", call[p], <<>>, -1, known[p], sockets[p])
  BY <1>1, Unmoved DEF Moves, Return, Goto, kernel
<1>3. ASSUME Now(p, runs[p], config[p], "returned", call[p], <<>>, -1, known[p], sockets[p])
      PROVE  ProcessInv(p)'
  <2> USE <1>3 DEF Now
  <2>1. Labelled(p) /\ NoStrays(p) /\ InHand(p)
    BY <1>1 DEF ProcessInv
  <2>2. KnownSockets(p)'
    BY <1>1, WithinCall DEF InCall, Labels
  <2>3. Labelled(p)'
    BY <2>1 DEF Labelled
  <2>4. Trying(p)' /\ InHand(p)' /\ Returned(p)'
    BY DEF Trying, InHand, Returned
  <2>5. NoStrays(p)'
    <3>1. ASSUME NEW fd \in DOMAIN sockets[p]
          PROVE  \/ \E c \in Calls : known[p][c] = fd
                 \/ call[p] = "local"
                 \/ runs[p] # "client" /\ \/ GivenUp(<<p, fd>>)
                                          \/ Unheard(<<p, fd>>) /\ HttpLost(p)'
      <4>1. CASE pc[p] = "listen" /\ fd = sockfd[p]
        <5>1. runs[p] # "client" /\ call[p] \in {"tcp", "http"}
          BY <2>1, <4>1 DEF Labelled
        <5>2. Unheard(<<p, fd>>)
          BY <2>1, <4>1 DEF InHand, Unheard, Sock
        <5> QED
          BY <5>1, <5>2 DEF HttpLost
      <4>2. CASE pc[p] = "bound"
        BY <4>2
      <4>3. CASE pc[p] \in {"resolve", "socket"} \/ (pc[p] = "listen" /\ fd # sockfd[p])
        BY <2>1, <4>3 DEF NoStrays, Holding, HttpLost
      <4> QED
        BY <4>1, <4>2, <4>3
    <3> QED
      BY <3>1 DEF NoStrays, GivenUp, Unheard, Sock
  <2> QED
    BY <2>2, <2>3, <2>4, <2>5 DEF ProcessInv
<1>4. "returned" \in Labels /\ -1 \in Int
  BY DEF Labels
<1> QED
  BY <1>1, <1>2, <1>3, <1>4, StepKeeps

\* A sequence is one over any set its values are of.
LEMMA OtherRange ==
  ASSUME NEW S, NEW s \in Seq(S), NEW R, \A i \in 1 .. Len(s) : s[i] \in R
  PROVE  s \in Seq(R)
<1>1. Len(s) \in Nat /\ s = [i \in 1 .. Len(s) |-> s[i]]
  OBVIOUS
<1>2. [i \in 1 .. Len(s) |-> s[i]] \in Seq(R)
  BY <1>1
<1> QED
  BY <1>1, <1>2, Zenon

LEMMA GetaddrinfoKeeps ==
  ASSUME IInv, NEW p \in Procs, Getaddrinfo(p),
         runs[p] = "heartbeat_client" => call[p] = "local"
  PROVE  IInv'
<1>1. CASE Resolves(p) /\ addrs' = [addrs EXCEPT ![p] = Addresses[Host(p)]]
           /\ Goto(p, "socket") /\ UNCHANGED sockfd
  <2> DEFINE as == Addresses[Host(p)]
  <2>1. /\ Types /\ ProcessInv(p) /\ IsTable(sockets[p]) /\ sockfd[p] \in Int
        /\ runs[p] \in Programs /\ call[p] \in Calls /\ known[p] \in [Calls -> Int]
    BY TypesOf
  <2>2. pc[p] = "resolve" /\ UNCHANGED <<runs, config, call, known, kernel>>
    BY DEF Getaddrinfo
  <2>3. Moves(p, runs[p], config[p], "socket", call[p], as, sockfd[p], known[p], sockets[p])
    BY <1>1, <2>1, <2>2, Unmoved DEF Moves, Goto, kernel
  <2>4. as \in Seq(AddressesOf(Host(p)))
    <3>1. as \in Seq(STRING) /\ AddressesOf(Host(p)) = {as[i] : i \in 1 .. Len(as)}
      BY <1>1, SetupAssumption DEF Resolves, AddressesOf
    <3> HIDE DEF as
    <3>2. \A i \in 1 .. Len(as) : as[i] \in AddressesOf(Host(p))
      BY <3>1
    <3> QED
      BY <3>1, <3>2, OtherRange
  <2> HIDE DEF as
  <2>5. ASSUME Now(p, runs[p], config[p], "socket", call[p], as, sockfd[p], known[p], sockets[p])
        PROVE  ProcessInv(p)'
    <3> USE <2>5 DEF Now
    <3>1. Labelled(p) /\ NoStrays(p)
      BY <2>1 DEF ProcessInv
    <3>2. KnownSockets(p)' /\ Host(p)' = Host(p)
      BY <2>1, <2>2, WithinCall DEF InCall, Labels
    <3>3. Labelled(p)'
      BY <2>2, <3>1 DEF Labelled
    <3>4. Trying(p)'
      BY <2>4, <3>2 DEF Trying
    <3>5. InHand(p)' /\ Returned(p)'
      BY DEF InHand, Returned
    <3>6. NoStrays(p)'
      BY <2>2, <3>1 DEF NoStrays, Holding, HttpLost, GivenUp, Unheard, Sock
    <3> QED
      BY <3>2, <3>3, <3>4, <3>5, <3>6 DEF ProcessInv
  <2>6. "socket" \in Labels
    BY DEF Labels
  <2> QED
    BY <2>1, <2>3, <2>5, <2>6, StepKeeps
<1>2. CASE Return(p, -1)
  BY <1>2, ReturnsMinusOne DEF Getaddrinfo
<1> QED
  BY <1>1, <1>2 DEF Getaddrinfo

LEMMA NoAddressLeftKeeps ==
  ASSUME IInv, NEW p \in Procs, NoAddressLeft(p)
  PROVE  IInv'
BY ReturnsMinusOne DEF NoAddressLeft

\* The addresses that are left are some of the host's.
LEMMA TailOfAddresses ==
  ASSUME NEW S, NEW s \in Seq(S), s # <<>>
  PROVE  Tail(s) \in Seq(S) /\ Head(s) \in S
OBVIOUS

\* A socket is given up, closed or not, and the next address is tried.
LEMMA NextAddressFits ==
  ASSUME IInv, NEW p \in Procs, pc[p] \in {"socket", "setsockopt", "bind", "connect"},
         addrs[p] # <<>>, NEW fd \in Int, NEW t,
         Now(p, runs[p], config[p], "socket", call[p], Tail(addrs[p]), fd, known[p], t),
         \A x \in DOMAIN t : x \in DOMAIN sockets[p] /\ t[x] = sockets[p][x],
         \A x \in DOMAIN sockets[p] : x \in DOMAIN t \/ (x = sockfd[p] /\ pc[p] # "socket"),
         pc[p] \in {"bind", "connect"} => sockfd[p] \notin DOMAIN t
  PROVE  ProcessInv(p)'
<1> USE DEF Now
<1>1. Types /\ ProcessInv(p)
  BY TypesOf
<1>2. Labelled(p) /\ NoStrays(p) /\ Trying(p) /\ InHand(p)
  BY <1>1 DEF ProcessInv
<1>3. \A x \in DOMAIN sockets[p] : (\E c \in Calls : known[p][c] = x) =>
        x \in DOMAIN t /\ t[x] = sockets[p][x]
  BY <1>2 DEF InHand, Fresh
<1>4. KnownSockets(p)' /\ Host(p)' = Host(p)
  BY <1>1, <1>3, WithinCall DEF InCall, Labels
<1>5. Labelled(p)'
  BY <1>2 DEF Labelled
<1>6. Trying(p)'
  BY <1>2, <1>4, TailOfAddresses DEF Trying
<1>7. InHand(p)' /\ Returned(p)'
  BY DEF InHand, Returned
<1>8. NoStrays(p)'
  <2>1. ASSUME NEW x \in DOMAIN t
        PROVE  \/ \E c \in Calls : known[p][c] = x
               \/ runs[p] # "client" /\ \/ GivenUp(<<p, x>>)'
                                        \/ Unheard(<<p, x>>)' /\ HttpLost(p)'
    <3>1. CASE pc[p] = "setsockopt" /\ x = sockfd[p]
      BY <1>2, <3>1 DEF Labelled, InHand, GivenUp, Sock
    <3>2. CASE pc[p] \in {"bind", "connect", "socket"} \/ x # sockfd[p]
      BY <1>2, <3>2 DEF NoStrays, Holding, HttpLost, GivenUp, Unheard, Sock
    <3> QED
      BY <3>1, <3>2
  <2> QED
    BY <2>1 DEF NoStrays
<1> QED
  BY <1>4, <1>5, <1>6, <1>7, <1>8 DEF ProcessInv

LEMMA NextAddressKeeps ==
  ASSUME IInv, NEW p \in Procs, pc[p] \in {"socket", "setsockopt", "bind", "connect"},
         addrs[p] # <<>>, NEW fd \in Int, NEW t,
         t = IF pc[p] \in {"bind", "connect"}
             THEN Restrict(sockets[p], DOMAIN sockets[p] \ {sockfd[p]})
             ELSE sockets[p],
         Moves(p, runs[p], config[p], "socket", call[p], Tail(addrs[p]), fd, known[p], t)
  PROVE  IInv'
<1>1. /\ IsTable(sockets[p])
      /\ runs[p] \in Programs /\ call[p] \in Calls /\ known[p] \in [Calls -> Int]
  BY TypesOf
<1>2. /\ IsTable(t)
      /\ \A x \in DOMAIN t : x \in DOMAIN sockets[p] /\ t[x] = sockets[p][x]
      /\ \A x \in DOMAIN sockets[p] : x \in DOMAIN t \/ (x = sockfd[p] /\ pc[p] # "socket")
      /\ pc[p] \in {"bind", "connect"} => sockfd[p] \notin DOMAIN t
  <2>1. CASE pc[p] \in {"bind", "connect"}
    <3>1. t = Restrict(sockets[p], DOMAIN sockets[p] \ {sockfd[p]})
      BY <2>1
    <3>2. IsTable(t)
      BY <1>1, <3>1, TableShrinks
    <3>3. /\ DOMAIN t = DOMAIN sockets[p] \ {sockfd[p]}
          /\ \A x \in DOMAIN t : t[x] = sockets[p][x]
      BY <3>1 DEF Restrict
    <3> QED
      BY <2>1, <3>2, <3>3
  <2>2. CASE ~ (pc[p] \in {"bind", "connect"})
    <3>1. t = sockets[p]
      BY <2>2
    <3>2. IsTable(t)
      BY <1>1, <3>1
    <3>3. /\ \A x \in DOMAIN t : x \in DOMAIN sockets[p] /\ t[x] = sockets[p][x]
          /\ DOMAIN t = DOMAIN sockets[p]
      BY <3>1, Zenon
    <3> QED
      BY <2>2, <3>2, <3>3
  <2> QED
    BY <2>1, <2>2
<1>3. "socket" \in Labels
  BY DEF Labels
<1> QED
  BY <1>1, <1>2, <1>3, NextAddressFits, StepKeeps

\* A call goes on with a socket, which is new or the one it has.
LEMMA SocketKeeps ==
  ASSUME IInv, NEW p \in Procs, pc[p] \in InCall,
         NEW l \in {"setsockopt", "bind", "listen", "bound", "connect", "returned"},
         NEW as, NEW fd \in Int, fd >= 3, NEW s, IsSocket(s),
         \/ pc[p] = "socket" /\ fd \notin DOMAIN sockets[p]
         \/ pc[p] \in {"setsockopt", "bind", "listen", "bound", "connect"} /\ fd = sockfd[p],
         Moves(p, runs[p], config[p], l, call[p], as, fd, known[p], With(sockets[p], fd, s)),
         /\ Now(p, runs[p], config[p], l, call[p], as, fd, known[p], With(sockets[p], fd, s))
         /\ Fresh(p)' /\ sockets'[p][fd] = s /\ Host(p)' = Host(p) /\ Port(p)' = Port(p)
         /\ \A c \in Calls : \A x : Wanted(p, c, x)' <=> Wanted(p, c, x)
         => Labelled(p)' /\ Trying(p)' /\ InHand(p)' /\ Returned(p)'
  PROVE  IInv'
<1> DEFINE t == With(sockets[p], fd, s)
<1>1. /\ Types /\ ProcessInv(p) /\ IsTable(sockets[p])
      /\ runs[p] \in Programs /\ call[p] \in Calls /\ known[p] \in [Calls -> Int]
  BY TypesOf
<1>2. /\ IsTable(t) /\ DOMAIN t = DOMAIN sockets[p] \cup {fd} /\ t[fd] = s
      /\ \A x \in DOMAIN sockets[p] \ {fd} : t[x] = sockets[p][x]
  <2>1. IsTable(t)
    BY <1>1, TableGrows
  <2>2. /\ DOMAIN t = DOMAIN sockets[p] \cup {fd} /\ t[fd] = s
        /\ \A x \in DOMAIN sockets[p] \ {fd} : t[x] = sockets[p][x]
    BY DEF With
  <2> QED
    BY <2>1, <2>2
<1> HIDE DEF t
<1>3. ASSUME Now(p, runs[p], config[p], l, call[p], as, fd, known[p], t)
      PROVE  ProcessInv(p)'
  <2> USE <1>3 DEF Now
  <2>1. NoStrays(p) /\ InHand(p) /\ KnownSockets(p)
    BY <1>1 DEF ProcessInv
  <2>2. \A c \in Calls : known[p][c] # fd
    <3>1. CASE pc[p] = "socket" /\ fd \notin DOMAIN sockets[p]
      <4>1. ASSUME NEW c \in Calls PROVE known[p][c] \in DOMAIN sockets[p] \cup {0, -1}
        BY <2>1 DEF KnownSockets
      <4> QED
        BY <3>1, <4>1
    <3>2. CASE pc[p] # "socket"
      BY <2>1, <3>2 DEF InHand, Fresh
    <3> QED
      BY <3>1, <3>2
  <2>3. \A x \in DOMAIN sockets[p] : (\E c \in Calls : known[p][c] = x) =>
          x \in DOMAIN t /\ t[x] = sockets[p][x]
    BY <1>2, <2>2
  <2>4. /\ KnownSockets(p)' /\ Host(p)' = Host(p) /\ Port(p)' = Port(p)
        /\ \A c \in Calls : \A x : Wanted(p, c, x)' <=> Wanted(p, c, x)
    BY <1>1, <2>3, WithinCall DEF InCall, Labels
  <2>5. Fresh(p)' /\ sockets'[p][fd] = s
    BY <1>2, <2>2 DEF Fresh
  <2>6. Labelled(p)' /\ Trying(p)' /\ InHand(p)' /\ Returned(p)'
    BY <1>3, <2>4, <2>5 DEF t
  <2>7. NoStrays(p)'
    <3>1. ASSUME NEW x \in DOMAIN t, x # fd
          PROVE  \/ \E c \in Calls : known[p][c] = x
                 \/ runs[p] # "client" /\ \/ GivenUp(<<p, x>>)'
                                          \/ Unheard(<<p, x>>)' /\ HttpLost(p)'
      <4>1. x \in DOMAIN sockets[p] /\ t[x] = sockets[p][x]
        BY <1>2, <3>1
      <4>2. ~ (Holding(p) /\ x = sockfd[p]) /\ pc[p] # "returned"
        BY <3>1 DEF Holding
      <4> QED
        BY <2>1, <4>1, <4>2 DEF NoStrays, HttpLost, GivenUp, Unheard, Sock
    <3>2. Holding(p)'
      BY DEF Holding
    <3> QED
      BY <3>1, <3>2 DEF NoStrays
  <2> QED
    BY <2>4, <2>6, <2>7 DEF ProcessInv
<1>4. l \in Labels
  BY DEF Labels
<1>5. Moves(p, runs[p], config[p], l, call[p], as, fd, known[p], t)
  BY DEF t
<1> QED
  BY <1>1, <1>2, <1>3, <1>4, <1>5, StepKeeps

LEMMA SocketCallKeeps ==
  ASSUME IInv, NEW p \in Procs, NEW proto, NEW next, Socket(p, proto, next),
         \/ proto = "tcp" /\ next = "setsockopt" /\ call[p] \in {"tcp", "http"}
         \/ proto = "udp" /\ next = "setsockopt" /\ call[p] \in {"udp", "local"}
         \/ proto = "tcp" /\ next = "connect" /\ runs[p] = "client"
  PROVE  IInv'
<1>1. /\ Types /\ ProcessInv(p) /\ IsTable(sockets[p]) /\ call[p] \in Calls
      /\ runs[p] \in Programs
  BY TypesOf
<1>2. /\ pc[p] = "socket" /\ addrs[p] # <<>>
      /\ UNCHANGED <<runs, config, call, known, lingering>>
  BY DEF Socket
<1>3. Labelled(p) /\ Trying(p)
  BY <1>1 DEF ProcessInv
<1>4. CASE /\ sockfd' = [sockfd EXCEPT ![p] = FreeFd(p)]
           /\ SetSocket(p, FreeFd(p), FreshSocket(proto))
           /\ Goto(p, next) /\ UNCHANGED addrs
  <2> DEFINE fd == FreeFd(p)
             s == FreshSocket(proto)
  <2>1. fd \in Int /\ fd >= 3 /\ fd \notin DOMAIN sockets[p]
    BY <1>1, FreeFdIsFree
  <2>2. IsSocket(s) /\ s.proto = proto /\ s.state = "open" /\ s.reuse = FALSE
    BY SocketKinds DEF FreshSocket
  <2>3. Moves(p, runs[p], config[p], next, call[p], addrs[p], fd, known[p],
              With(sockets[p], fd, s))
    BY <1>1, <1>2, <1>4, Unmoved DEF Moves, Goto, SetSocket, With
  <2> HIDE DEF fd, s
  <2>4. ASSUME Now(p, runs[p], config[p], next, call[p], addrs[p], fd, known[p],
                   With(sockets[p], fd, s)),
               Fresh(p)', sockets'[p][fd] = s, Host(p)' = Host(p)
        PROVE  Labelled(p)' /\ Trying(p)' /\ InHand(p)' /\ Returned(p)'
    <3> USE <2>4 DEF Now
    <3>1. Labelled(p)'
      BY <1>2, <1>3 DEF Labelled
    <3>2. Trying(p)'
      BY <1>2, <1>3 DEF Trying
    <3>3. InHand(p)' /\ Returned(p)'
      BY <1>2, <1>3, <2>2 DEF InHand, Returned, Labelled
    <3> QED
      BY <3>1, <3>2, <3>3
  <2>5. /\ next \in {"setsockopt", "bind", "listen", "bound", "connect", "returned"}
        /\ pc[p] \in InCall
    BY <1>2 DEF InCall, Labels
  <2> QED
    BY <1>2, <2>1, <2>2, <2>3, <2>4, <2>5, SocketKeeps
<1>5. CASE /\ sockfd' = [sockfd EXCEPT ![p] = -1]
           /\ NextAddress(p) /\ UNCHANGED sockets
  <2> DEFINE none == -1
  <2>1. none \in Int
    OBVIOUS
  <2>2. Moves(p, runs[p], config[p], "socket", call[p], Tail(addrs[p]), none, known[p], sockets[p])
    BY <1>1, <1>2, <1>5, Unmoved DEF Moves, NextAddress, Goto
  <2> HIDE DEF none
  <2> QED
    BY <1>2, <2>1, <2>2, NextAddressKeeps
<1> QED
  BY <1>4, <1>5 DEF Socket

\* A call has a socket of its own.
LEMMA HasSocket ==
  ASSUME IInv, NEW p \in Procs, pc[p] \in {"setsockopt", "bind", "listen", "bound", "connect"}
  PROVE  /\ sockfd[p] \in DOMAIN sockets[p] /\ sockfd[p] \in Int /\ sockfd[p] >= 3
         /\ IsSocket(sockets[p][sockfd[p]])
         /\ Labelled(p) /\ Trying(p) /\ InHand(p) /\ Types
<1>1. /\ Types /\ ProcessInv(p)
      /\ \A x \in DOMAIN sockets[p] : x \in Int /\ x >= 3 /\ IsSocket(sockets[p][x])
  BY TypesOf
<1>2. Labelled(p) /\ Trying(p) /\ InHand(p)
  BY <1>1 DEF ProcessInv
<1>3. sockfd[p] \in DOMAIN sockets[p]
  BY <1>2 DEF InHand, Fresh
<1> QED
  BY <1>1, <1>2, <1>3

LEMMA SetsockoptKeeps ==
  ASSUME IInv, NEW p \in Procs, Setsockopt(p), call[p] \in {"tcp", "http", "udp", "local"}
  PROVE  IInv'
<1> DEFINE fd == sockfd[p]
           old == sockets[p][fd]
<1>1. /\ fd \in DOMAIN sockets[p] /\ fd \in Int /\ fd >= 3 /\ IsSocket(old)
      /\ Labelled(p) /\ Trying(p) /\ InHand(p) /\ Types
  BY HasSocket DEF Setsockopt
<1>2. /\ pc[p] = "setsockopt" /\ UNCHANGED <<runs, config, call, sockfd, known, lingering>>
      /\ addrs[p] # <<>> /\ old.state = "open"
      /\ old.proto = IF call[p] \in {"tcp", "http"} THEN "tcp" ELSE "udp"
  BY <1>1 DEF Setsockopt, InHand, Trying
<1>3. CASE /\ SetSocket(p, sockfd[p], [sockets[p][sockfd[p]] EXCEPT !.reuse = TRUE])
           /\ Goto(p, "bind") /\ UNCHANGED addrs
  <2> DEFINE s == [old EXCEPT !.reuse = TRUE]
  <2>1. IsSocket(s) /\ s.state = old.state /\ s.proto = old.proto /\ s.reuse = TRUE
    <3>1. IsSocket(s)
      BY <1>1, SocketKinds
    <3> QED
      BY <1>1, <3>1 DEF IsSocket
  <2>2. Moves(p, runs[p], config[p], "bind", call[p], addrs[p], fd, known[p],
              With(sockets[p], fd, s))
    BY <1>1, <1>2, <1>3, Unmoved DEF Moves, Goto, SetSocket, With
  <2> HIDE DEF old, s
  <2>3. ASSUME Now(p, runs[p], config[p], "bind", call[p], addrs[p], fd, known[p],
                   With(sockets[p], fd, s)),
               Fresh(p)', sockets'[p][fd] = s, Host(p)' = Host(p)
        PROVE  Labelled(p)' /\ Trying(p)' /\ InHand(p)' /\ Returned(p)'
    <3> USE <2>3 DEF Now
    <3>1. Labelled(p)'
      BY <1>1, <1>2 DEF Labelled
    <3>2. Trying(p)'
      BY <1>1, <1>2 DEF Trying
    <3>3. InHand(p)' /\ Returned(p)'
      BY <1>2, <2>1 DEF InHand, Returned
    <3> QED
      BY <3>1, <3>2, <3>3
  <2>4. pc[p] \in InCall
    BY <1>2 DEF InCall, Labels
  <2> QED
    BY <1>1, <1>2, <2>1, <2>2, <2>3, <2>4, SocketKeeps
<1>4. CASE NextAddress(p) /\ UNCHANGED sockets
  <2>1. Moves(p, runs[p], config[p], "socket", call[p], Tail(addrs[p]), fd, known[p], sockets[p])
    BY <1>1, <1>2, <1>4, Unmoved DEF Moves, NextAddress, Goto
  <2> QED
    BY <1>1, <1>2, <2>1, NextAddressKeeps
<1> QED
  BY <1>3, <1>4 DEF Setsockopt

\* A place one of whose addresses is next.
LEMMA NextPlace ==
  ASSUME NEW p \in Procs, NEW c \in Calls, call[p] = c,
         addrs[p] \in Seq(AddressesOf(Host(p))), addrs[p] # <<>>
  PROVE  Place(p, c, Addr(p))
<1>1. Head(addrs[p]) \in AddressesOf(Host(p))
  BY TailOfAddresses
<1>2. Host(p) = HostFor(p, c) /\ Port(p) = config[p][PortOf(c)]
  BY DEF Host, HostFor, Port
<1> QED
  BY <1>1, <1>2 DEF Place, Addr

LEMMA BindCallKeeps ==
  ASSUME IInv, NEW p \in Procs, NEW next, Bind(p, next),
         \/ next = "listen" /\ call[p] \in {"tcp", "http"}
         \/ next = "bound" /\ call[p] \in {"udp", "local"}
  PROVE  IInv'
<1> DEFINE fd == sockfd[p]
           old == sockets[p][fd]
<1>1. /\ fd \in DOMAIN sockets[p] /\ fd \in Int /\ fd >= 3 /\ IsSocket(old)
      /\ Labelled(p) /\ Trying(p) /\ InHand(p) /\ Types
  BY HasSocket DEF Bind
<1>2. /\ pc[p] = "bind" /\ UNCHANGED <<runs, config, call, sockfd, known, lingering>>
      /\ addrs[p] # <<>> /\ addrs[p] \in Seq(AddressesOf(Host(p))) /\ old.reuse = TRUE
      /\ old.proto = IF call[p] \in {"tcp", "http"} THEN "tcp" ELSE "udp"
  BY <1>1 DEF Bind, InHand, Trying, IsSocket
<1>3. CASE /\ SetSocket(p, sockfd[p],
                        [sockets[p][sockfd[p]] EXCEPT !.state = "bound", !.addr = Addr(p)])
           /\ Goto(p, next) /\ UNCHANGED addrs
  <2> DEFINE a == Addr(p)
  <2>1. PICK s : /\ s = [old EXCEPT !.state = "bound", !.addr = a] /\ IsSocket(s)
                 /\ s.state = "bound" /\ s.proto = old.proto /\ s.addr = a
    <3> DEFINE new == [old EXCEPT !.state = "bound", !.addr = a]
    <3> HIDE DEF a
    <3>1. IsSocket(new)
      BY <1>1, <1>2, SocketKinds
    <3>2. new.state = "bound" /\ new.proto = old.proto /\ new.addr = a
      BY <1>1, <3>1 DEF IsSocket
    <3> QED
      BY <3>1, <3>2
  <2>2. Place(p, call[p], a)
    <3>1. call[p] \in Calls
      BY DEF Calls
    <3> QED
      BY <1>2, <3>1, NextPlace
  <2>3. Moves(p, runs[p], config[p], next, call[p], addrs[p], fd, known[p],
              With(sockets[p], fd, s))
    BY <1>1, <1>2, <1>3, <2>1, Unmoved DEF Moves, Goto, SetSocket, With
  <2> HIDE DEF old
  <2>4. ASSUME Now(p, runs[p], config[p], next, call[p], addrs[p], fd, known[p],
                   With(sockets[p], fd, s)),
               Fresh(p)', sockets'[p][fd] = s, Host(p)' = Host(p), Port(p)' = Port(p),
               \A c \in Calls : \A x : Wanted(p, c, x)' <=> Wanted(p, c, x)
        PROVE  Labelled(p)' /\ Trying(p)' /\ InHand(p)' /\ Returned(p)'
    <3> USE <2>4 DEF Now
    <3>1. Labelled(p)'
      BY <1>1, <1>2 DEF Labelled
    <3>2. Trying(p)'
      BY <1>2 DEF Trying
    <3>3. Addr(p)' = a
      BY DEF Addr
    <3> HIDE DEF a
    <3>4. CASE next = "listen" /\ call[p] \in {"tcp", "http"}
      <4>1. s.proto = "tcp"
        BY <1>2, <2>1, <3>4
      <4>2. pc'[p] = "listen" /\ sockets'[p][sockfd'[p]] = s
        BY <3>4
      <4>3. InHand(p)'
        BY <2>1, <2>4, <3>3, <4>1, <4>2 DEF InHand
      <4>4. Returned(p)'
        BY <4>2 DEF Returned
      <4> QED
        BY <3>1, <3>2, <4>3, <4>4
    <3>5. CASE next = "bound" /\ call[p] \in {"udp", "local"}
      <4>1. Wanted(p, call[p], s)
        <5>1. s.proto = "udp" /\ s.state = "bound" /\ s.addr = a
          BY <1>2, <2>1, <3>5
        <5>2. Place(p, call[p], s.addr)
          BY <2>2, <5>1
        <5> QED
          BY <3>5, <5>1, <5>2 DEF Wanted
      <4>2. Wanted(p, call[p], s)'
        <5>1. call[p] \in Calls
          BY <3>5 DEF Calls
        <5>2. Wanted(p, call[p], s)' <=> Wanted(p, call[p], s)
          BY <2>4, <5>1
        <5> QED
          BY <4>1, <5>2
      <4>3. pc'[p] = "bound" /\ sockets'[p][sockfd'[p]] = s
        BY <3>5
      <4>4. InHand(p)'
        BY <2>4, <4>2, <4>3 DEF InHand
      <4>5. Returned(p)'
        BY <4>3 DEF Returned
      <4> QED
        BY <3>1, <3>2, <4>4, <4>5
    <3> QED
      BY <3>1, <3>2, <3>4, <3>5
  <2>5. /\ next \in {"setsockopt", "bind", "listen", "bound", "connect", "returned"}
        /\ pc[p] \in InCall
    BY <1>2 DEF InCall, Labels
  <2> QED
    BY <1>1, <1>2, <2>1, <2>3, <2>4, <2>5, SocketKeeps
<1>4. CASE CloseFd(p) /\ NextAddress(p)
  <2> DEFINE t == Restrict(sockets[p], DOMAIN sockets[p] \ {fd})
  <2>1. Moves(p, runs[p], config[p], "socket", call[p], Tail(addrs[p]), fd, known[p], t)
    BY <1>1, <1>2, <1>4, Unmoved DEF Moves, NextAddress, Goto, CloseFd
  <2> HIDE DEF t
  <2>2. t = IF pc[p] \in {"bind", "connect"}
            THEN Restrict(sockets[p], DOMAIN sockets[p] \ {sockfd[p]}) ELSE sockets[p]
    BY <1>2 DEF t
  <2> QED
    BY <1>1, <1>2, <2>1, <2>2, NextAddressKeeps
<1> QED
  BY <1>3, <1>4 DEF Bind

\* A call returns the socket it has.
LEMMA ReturnsSocket ==
  ASSUME IInv, NEW p \in Procs, runs[p] # "heartbeat_client", call[p] # "local",
         pc[p] \in {"listen", "bound", "connect"}, NEW s, IsSocket(s), Wanted(p, call[p], s),
         Moves(p, runs[p], config[p], "returned", call[p], <<>>, sockfd[p], known[p],
               With(sockets[p], sockfd[p], s))
  PROVE  IInv'
<1> DEFINE fd == sockfd[p]
<1>1. fd \in Int /\ fd >= 3 /\ Labelled(p)
  BY HasSocket
<1>2. call[p] \in Calls
  BY TypesOf
<1>3. ASSUME Now(p, runs[p], config[p], "returned", call[p], <<>>, fd, known[p],
                 With(sockets[p], fd, s)),
             Fresh(p)', sockets'[p][fd] = s,
             \A c \in Calls : \A x : Wanted(p, c, x)' <=> Wanted(p, c, x)
      PROVE  Labelled(p)' /\ Trying(p)' /\ InHand(p)' /\ Returned(p)'
  <2> USE <1>3 DEF Now
  <2>1. Labelled(p)'
    BY <1>1 DEF Labelled
  <2>2. Trying(p)' /\ InHand(p)'
    BY DEF Trying, InHand
  <2>3. Wanted(p, call[p], s)'
    BY <1>2
  <2>4. Returned(p)'
    BY <2>3 DEF Returned
  <2> QED
    BY <2>1, <2>2, <2>4
<1>4. pc[p] \in InCall
  BY DEF InCall, Labels
<1> QED
  BY <1>1, <1>3, <1>4, SocketKeeps

LEMMA ListenKeeps ==
  ASSUME IInv, NEW p \in Procs, Listen(p), call[p] \in {"tcp", "http"}
  PROVE  IInv'
<1> DEFINE fd == sockfd[p]
           old == sockets[p][fd]
<1>1. /\ fd \in DOMAIN sockets[p] /\ IsSocket(old)
      /\ Labelled(p) /\ Trying(p) /\ InHand(p) /\ Types
  BY HasSocket DEF Listen
<1>2. /\ pc[p] = "listen" /\ UNCHANGED <<runs, config, call, known, lingering>>
      /\ addrs[p] # <<>> /\ addrs[p] \in Seq(AddressesOf(Host(p)))
      /\ old.state = "bound" /\ old.reuse = TRUE /\ old.proto = "tcp" /\ old.addr = Addr(p)
  BY <1>1 DEF Listen, InHand, Trying, IsSocket
<1>3. CASE /\ SetSocket(p, sockfd[p], [sockets[p][sockfd[p]] EXCEPT !.state = "listening"])
           /\ Return(p, sockfd[p])
  <2> DEFINE s == [old EXCEPT !.state = "listening"]
  <2>1. IsSocket(s) /\ s.state = "listening" /\ s.proto = "tcp" /\ s.addr = old.addr
    <3>1. IsSocket(s)
      BY <1>1, <1>2, SocketKinds
    <3> QED
      BY <1>1, <1>2, <3>1 DEF IsSocket
  <2>2. Moves(p, runs[p], config[p], "returned", call[p], <<>>, fd, known[p],
              With(sockets[p], fd, s))
    BY <1>1, <1>2, <1>3, Unmoved DEF Moves, Goto, Return, SetSocket, With
  <2> HIDE DEF s
  <2>3. Wanted(p, call[p], s)
    <3>1. Place(p, call[p], s.addr)
      <4>1. call[p] \in Calls
        BY DEF Calls
      <4> QED
        BY <1>2, <2>1, <4>1, NextPlace
    <3> QED
      BY <2>1, <3>1 DEF Wanted
  <2>4. runs[p] # "heartbeat_client" /\ call[p] # "local"
    BY <1>1, <1>2 DEF Labelled
  <2>5. pc[p] \in {"listen", "bound", "connect"}
    BY <1>2
  <2> QED
    BY <2>1, <2>2, <2>3, <2>4, <2>5, ReturnsSocket
<1>4. CASE Return(p, -1) /\ UNCHANGED sockets
  BY <1>2, <1>4, ReturnsMinusOne DEF kernel
<1> QED
  BY <1>3, <1>4 DEF Listen

LEMMA BoundKeeps ==
  ASSUME IInv, NEW p \in Procs, Bound(p), call[p] = "udp"
  PROVE  IInv'
<1> DEFINE fd == sockfd[p]
           s == sockets[p][fd]
<1>1. /\ fd \in DOMAIN sockets[p] /\ IsSocket(s)
      /\ Labelled(p) /\ InHand(p) /\ Types
  BY HasSocket DEF Bound
<1>2. /\ pc[p] = "bound" /\ Return(p, fd) /\ UNCHANGED <<runs, config, call, known, kernel>>
      /\ Wanted(p, call[p], s)
  BY <1>1 DEF Bound, InHand
<1>3. With(sockets[p], fd, s) = sockets[p]
  <2>1. IsTable(sockets[p])
    BY TypesOf
  <2>2. sockets[p] = [x \in DOMAIN sockets[p] |-> sockets[p][x]]
    BY <2>1 DEF IsTable
  <2>3. DOMAIN sockets[p] \cup {fd} = DOMAIN sockets[p]
    BY <1>1
  <2>4. \A x \in DOMAIN sockets[p] : (IF x = fd THEN s ELSE sockets[p][x]) = sockets[p][x]
    OBVIOUS
  <2> QED
    BY <2>2, <2>3, <2>4 DEF With
<1>4. Moves(p, runs[p], config[p], "returned", call[p], <<>>, fd, known[p],
            With(sockets[p], fd, s))
  BY <1>1, <1>2, <1>3, Unmoved DEF Moves, Goto, Return, kernel
<1>5. runs[p] # "heartbeat_client" /\ call[p] # "local"
  BY <1>1, <1>2 DEF Labelled
<1>6. pc[p] \in {"listen", "bound", "connect"}
  BY <1>2
<1> QED
  BY <1>1, <1>2, <1>4, <1>5, <1>6, ReturnsSocket

LEMMA ConnectKeeps ==
  ASSUME IInv, NEW p \in Procs, Connect(p), runs[p] = "client"
  PROVE  IInv'
<1> DEFINE fd == sockfd[p]
           old == sockets[p][fd]
<1>1. /\ fd \in DOMAIN sockets[p] /\ fd \in Int /\ IsSocket(old)
      /\ Labelled(p) /\ Trying(p) /\ InHand(p) /\ Types
  BY HasSocket DEF Connect
<1>2. /\ pc[p] = "connect" /\ UNCHANGED <<runs, config, call, known, lingering>>
      /\ addrs[p] # <<>> /\ addrs[p] \in Seq(AddressesOf(Host(p)))
      /\ old.proto = "tcp" /\ call[p] = "external"
  BY <1>1 DEF Connect, InHand, Trying, Labelled
<1>3. CASE /\ SetSocket(p, sockfd[p],
                        [sockets[p][sockfd[p]] EXCEPT !.state = "connected", !.peer = Addr(p)])
           /\ Return(p, sockfd[p])
  <2> DEFINE a == Addr(p)
             s == [old EXCEPT !.state = "connected", !.peer = a]
  <2>1. IsSocket(s) /\ s.state = "connected" /\ s.proto = "tcp" /\ s.peer = a
    <3> HIDE DEF a
    <3>1. IsSocket(s)
      BY <1>1, SocketKinds
    <3> QED
      BY <1>1, <1>2, <3>1 DEF IsSocket
  <2>2. Moves(p, runs[p], config[p], "returned", call[p], <<>>, fd, known[p],
              With(sockets[p], fd, s))
    BY <1>1, <1>2, <1>3, Unmoved DEF Moves, Goto, Return, SetSocket, With
  <2>3. Place(p, "external", a)
    <3>1. "external" \in Calls
      BY DEF Calls
    <3> QED
      BY <1>2, <3>1, NextPlace
  <2> HIDE DEF s, a
  <2>4. Wanted(p, call[p], s)
    BY <1>2, <2>1, <2>3 DEF Wanted
  <2>5. runs[p] # "heartbeat_client" /\ call[p] # "local"
    BY <1>2
  <2>6. pc[p] \in {"listen", "bound", "connect"}
    BY <1>2
  <2> QED
    BY <2>1, <2>2, <2>4, <2>5, <2>6, ReturnsSocket
<1>4. CASE CloseFd(p) /\ NextAddress(p) /\ UNCHANGED sockfd
  <2> DEFINE t == Restrict(sockets[p], DOMAIN sockets[p] \ {fd})
  <2>1. Moves(p, runs[p], config[p], "socket", call[p], Tail(addrs[p]), fd, known[p], t)
    BY <1>1, <1>2, <1>4, Unmoved DEF Moves, NextAddress, Goto, CloseFd
  <2> HIDE DEF t
  <2>2. t = IF pc[p] \in {"bind", "connect"}
            THEN Restrict(sockets[p], DOMAIN sockets[p] \ {sockfd[p]}) ELSE sockets[p]
    BY <1>2 DEF t
  <2> QED
    BY <1>1, <1>2, <2>1, <2>2, NextAddressKeeps
<1> QED
  BY <1>3, <1>4 DEF Connect

-------------------------------------------------------------------------------
(* The heartbeat client, which makes one socket and then looks up its peer. *)

LEMMA CreateDataKeeps ==
  ASSUME IInv, NEW p \in Procs, CreateData(p), call[p] = "local"
  PROVE  IInv'
<1>1. /\ Types /\ ProcessInv(p) /\ IsTable(sockets[p])
      /\ runs[p] \in Programs /\ sockfd[p] \in Int /\ known[p] \in [Calls -> Int]
  BY TypesOf
<1>2. pc[p] = "bound" /\ UNCHANGED <<runs, config, kernel>>
  BY DEF CreateData
<1>3. Labelled(p) /\ KnownSockets(p) /\ InHand(p) /\ NoStrays(p)
  BY <1>1 DEF ProcessInv
<1>4. runs[p] = "heartbeat_client" /\ Fresh(p) /\ Wanted(p, "local", sockets[p][sockfd[p]])
  BY <1>2, <1>3 DEF Labelled, InHand
<1>5. CASE /\ call' = [call EXCEPT ![p] = "external"]
           /\ known' = [known EXCEPT ![p].local = sockfd[p]]
           /\ Goto(p, "resolve") /\ UNCHANGED <<addrs, sockfd>>
  <2> DEFINE fd == sockfd[p]
             k == [known[p] EXCEPT !["local"] = fd]
  <2>1. /\ k \in [Calls -> Int] /\ k["local"] = fd
        /\ \A c \in Calls \ {"local"} : k[c] = known[p][c]
    BY <1>1 DEF Calls
  <2>2. Moves(p, runs[p], config[p], "resolve", "external", addrs[p], fd, k, sockets[p])
    BY <1>1, <1>2, <1>5, Unmoved DEF Moves, Goto, kernel
  <2> HIDE DEF k
  <2>3. ASSUME Now(p, runs[p], config[p], "resolve", "external", addrs[p], fd, k, sockets[p])
        PROVE  ProcessInv(p)'
    <3> USE <2>3 DEF Now
    <3>1. Labelled(p)'
      BY <1>4 DEF Labelled
    <3>2. KnownSockets(p)'
      <4>1. Finished(p) = {} /\ Finished(p)' = {"local"}
        BY <1>2, <1>4 DEF Finished
      <4>2. Wanted(p, "local", sockets[p][fd])' <=> Wanted(p, "local", sockets[p][fd])
        BY DEF Wanted, Place, HostFor
      <4>3. \A c \in Calls \ {"local"} : k[c] = 0
        BY <1>3, <2>1, <4>1 DEF KnownSockets
      <4> QED
        BY <1>4, <2>1, <4>1, <4>2, <4>3 DEF KnownSockets, Fresh
    <3>3. Trying(p)' /\ InHand(p)' /\ Returned(p)'
      BY DEF Trying, InHand, Returned
    <3>4. NoStrays(p)'
      <4>1. ASSUME NEW x \in DOMAIN sockets[p], x # fd
            PROVE  \/ \E c \in Calls : k[c] = x
                   \/ runs[p] # "client" /\ \/ GivenUp(<<p, x>>)
                                            \/ Unheard(<<p, x>>) /\ HttpLost(p)'
        <5>1. CASE \E c \in Calls : known[p][c] = x
          <6>1. PICK c \in Calls : known[p][c] = x
            BY <5>1
          <6>2. known[p][c] = 0
            BY <1>2, <1>3, <1>4 DEF KnownSockets, Finished
          <6> QED
            BY <1>1, <6>1, <6>2 DEF IsTable
        <5>2. CASE ~ \E c \in Calls : known[p][c] = x
          <6>1. \/ GivenUp(<<p, x>>)
                \/ Unheard(<<p, x>>) /\ HttpLost(p)
            BY <1>2, <1>3, <4>1, <5>2 DEF NoStrays
          <6>2. ~ HttpLost(p)
            <7>1. known[p]["http"] = 0
              BY <1>2, <1>3, <1>4 DEF KnownSockets, Finished, Calls
            <7> QED
              BY <1>2, <7>1 DEF HttpLost
          <6> QED
            BY <1>4, <6>1, <6>2
        <5> QED
          BY <5>1, <5>2
      <4>2. "local" \in Calls
        BY DEF Calls
      <4> QED
        BY <2>1, <4>1, <4>2 DEF NoStrays, GivenUp, Unheard, Sock
    <3> QED
      BY <3>1, <3>2, <3>3, <3>4 DEF ProcessInv
  <2>4. "resolve" \in Labels /\ "external" \in Calls
    BY DEF Labels, Calls
  <2> QED
    BY <1>1, <2>1, <2>2, <2>3, <2>4, StepKeeps
<1>6. CASE Return(p, -1) /\ UNCHANGED <<call, known>>
  BY <1>2, <1>6, ReturnsMinusOne
<1> QED
  BY <1>5, <1>6 DEF CreateData

LEMMA KeepFirstKeeps ==
  ASSUME IInv, NEW p \in Procs, KeepFirst(p), call[p] = "external", runs[p] = "heartbeat_client"
  PROVE  IInv'
<1>1. /\ Types /\ ProcessInv(p) /\ IsTable(sockets[p]) /\ call[p] \in Calls
      /\ runs[p] \in Programs /\ sockfd[p] \in Int /\ known[p] \in [Calls -> Int]
      /\ \A x \in DOMAIN sockets[p] : x \in Int /\ x >= 3 /\ IsSocket(sockets[p][x])
  BY TypesOf
<1>2. pc[p] = "resolve" /\ UNCHANGED <<runs, config, call, known, lingering>>
  BY DEF KeepFirst
<1>3. Labelled(p) /\ KnownSockets(p) /\ NoStrays(p)
  BY <1>1 DEF ProcessInv
<1>4. Finished(p) = {"local"} /\ "local" \in Calls
  BY <1>2 DEF Finished, Calls
<1> DEFINE fd == known[p]["local"]
           old == sockets[p][fd]
<1>5. /\ fd \in DOMAIN sockets[p] /\ fd \in Int /\ fd >= 3 /\ IsSocket(old)
      /\ Wanted(p, "local", old)
  BY <1>1, <1>3, <1>4 DEF KnownSockets
<1>6. ASSUME NEW t, NEW r \in Int, IsTable(t), DOMAIN t = DOMAIN sockets[p],
             \A x \in DOMAIN t \ {fd} : t[x] = sockets[p][x], Wanted(p, "local", t[fd]),
             r = -1 \/ (r = fd /\ Place(p, "external", t[fd].peer)),
             Moves(p, runs[p], config[p], "returned", call[p], <<>>, r, known[p], t)
      PROVE  IInv'
  <2>1. ASSUME Now(p, runs[p], config[p], "returned", call[p], <<>>, r, known[p], t)
        PROVE  ProcessInv(p)'
    <3> USE <2>1 DEF Now
    <3>1. Labelled(p)'
      BY DEF Labelled
    <3>2. KnownSockets(p)'
      <4>1. Finished(p)' = {"local"}
        BY DEF Finished
      <4>2. \A s : Wanted(p, "local", s)' <=> Wanted(p, "local", s)
        BY DEF Wanted, Place, HostFor
      <4>3. Wanted(p, "local", t[fd])
        BY <1>6
      <4>4. fd \in DOMAIN t /\ Wanted(p, "local", sockets[p][fd])'
        BY <1>5, <1>6, <4>2
      <4>5. \A c \in Calls \ {"local"} : known[p][c] = 0
        BY <1>3, <1>4 DEF KnownSockets
      <4> QED
        BY <1>4, <4>1, <4>2, <4>3, <4>4, <4>5 DEF KnownSockets
    <3>3. Trying(p)' /\ InHand(p)'
      BY DEF Trying, InHand
    <3>4. Returned(p)'
      <4>1. \A a : Place(p, "external", a)' <=> Place(p, "external", a)
        BY DEF Place, HostFor
      <4> QED
        BY <1>6, <4>1 DEF Returned
    <3>5. NoStrays(p)'
      <4>1. ASSUME NEW x \in DOMAIN t, x # fd
            PROVE  \/ \E c \in Calls : known[p][c] = x
                   \/ runs[p] # "client" /\ \/ GivenUp(<<p, x>>)'
                                            \/ Unheard(<<p, x>>)' /\ HttpLost(p)'
        BY <1>2, <1>3, <1>6, <4>1 DEF NoStrays, Holding, HttpLost, GivenUp, Unheard, Sock
      <4> QED
        BY <1>4, <4>1 DEF NoStrays
    <3> QED
      BY <3>1, <3>2, <3>3, <3>4, <3>5 DEF ProcessInv
  <2>2. "returned" \in Labels
    BY DEF Labels
  <2> QED
    BY <1>1, <1>6, <2>1, <2>2, StepKeeps
<1>7. ASSUME NEW a, a = [ip |-> Addresses[Host(p)][1], port |-> Port(p)], Resolves(p),
             SetSocket(p, known[p].local, [sockets[p][known[p].local] EXCEPT !.peer = a]),
             Return(p, known[p].local)
      PROVE  IInv'
  <2> DEFINE s == [old EXCEPT !.peer = a]
             t == With(sockets[p], fd, s)
  <2>1. IsSocket(s)
    BY <1>5, SocketKinds
  <2>2. /\ s.peer = a /\ s.state = old.state /\ s.proto = old.proto /\ s.addr = old.addr
    BY <1>5, <2>1 DEF IsSocket
  <2>3. Wanted(p, "local", s)
    BY <1>5, <2>2 DEF Wanted
  <2>4. Place(p, "external", a)
    <3>1. Addresses[Host(p)] \in Seq(STRING) /\ Addresses[Host(p)] # <<>>
      BY <1>7, SetupAssumption DEF Resolves
    <3>2. 1 \in 1 .. Len(Addresses[Host(p)])
      BY <3>1
    <3>3. a.ip \in AddressesOf(Host(p))
      BY <1>7, <3>2 DEF AddressesOf, Resolves
    <3> QED
      BY <1>7, <3>3 DEF Place, Host, Port, HostFor
  <2>5. IsTable(t)
    BY <1>1, <1>5, <2>1, TableGrows
  <2>6. Moves(p, runs[p], config[p], "returned", call[p], <<>>, fd, known[p], t)
    BY <1>1, <1>2, <1>7, Unmoved DEF Moves, Return, Goto, SetSocket, With
  <2>7. /\ DOMAIN t = DOMAIN sockets[p] /\ t[fd] = s
        /\ \A x \in DOMAIN t \ {fd} : t[x] = sockets[p][x]
    BY <1>5 DEF With
  <2> HIDE DEF s, t
  <2>8. Wanted(p, "local", t[fd]) /\ Place(p, "external", t[fd].peer)
    BY <2>2, <2>3, <2>4, <2>7
  <2> QED
    BY <1>5, <1>6, <2>5, <2>6, <2>7, <2>8
<1>8. CASE Return(p, -1) /\ UNCHANGED sockets
  <2>1. Moves(p, runs[p], config[p], "returned", call[p], <<>>, -1, known[p], sockets[p])
    BY <1>1, <1>2, <1>8, Unmoved DEF Moves, Return, Goto
  <2>2. -1 \in Int
    OBVIOUS
  <2> HIDE DEF fd, old
  <2>3. Wanted(p, "local", sockets[p][fd])
    BY <1>5 DEF old
  <2> QED
    BY <1>1, <1>6, <2>1, <2>2, <2>3
<1> QED
  BY <1>7, <1>8 DEF KeepFirst

-------------------------------------------------------------------------------
(* The main functions. *)

LEMMA StoreAndGoKeeps ==
  ASSUME IInv, NEW p \in Procs, runs[p] = "server", pc[p] = "returned", Tested(p) > 0,
         StoreAndGo(p)
  PROVE  IInv'
<1> DEFINE fd == sockfd[p]
           c0 == call[p]
           k == [known[p] EXCEPT ![c0] = fd]
           l == IF c0 = "http" THEN "pool" ELSE "resolve"
           c1 == IF c0 = "http" THEN "http" ELSE NextCall[c0]
<1>1. /\ Types /\ ProcessInv(p) /\ IsTable(sockets[p]) /\ fd \in Int
      /\ runs[p] \in Programs /\ c0 \in Calls /\ known[p] \in [Calls -> Int]
      /\ \A x \in DOMAIN sockets[p] : x \in Int /\ x >= 3
  BY TypesOf
<1>2. Labelled(p) /\ KnownSockets(p) /\ Returned(p) /\ NoStrays(p)
  BY <1>1 DEF ProcessInv
<1>3. c0 \in {"tcp", "udp", "http"}
  BY <1>2 DEF Labelled
<1>4. /\ Finished(p) = IF c0 = "tcp" THEN {} ELSE IF c0 = "udp" THEN {"tcp"} ELSE {"tcp", "udp"}
      /\ c0 \notin Finished(p) /\ Finished(p) \subseteq Calls
  BY <1>3 DEF Finished, Calls
<1>5. /\ fd # -1 => Fresh(p) /\ Wanted(p, c0, sockets[p][fd])
      /\ c0 # "http" => fd # -1
  BY <1>2 DEF Returned, Tested
<1>6. /\ k \in [Calls -> Int] /\ k[c0] = fd /\ \A c \in Calls \ {c0} : k[c] = known[p][c]
  BY <1>1
<1>7. c1 \in Calls /\ l \in Labels /\ c1 \in {"udp", "http"}
  BY <1>3 DEF Calls, Labels, NextCall
<1>8. Moves(p, runs[p], config[p], l, c1, addrs[p], 0, k, sockets[p])
  <2>1. /\ UNCHANGED <<runs, config, addrs, kernel>> /\ known' = [known EXCEPT ![p] = k]
        /\ sockfd' = [sockfd EXCEPT ![p] = 0]
    BY <1>1 DEF StoreAndGo, Types
  <2>2. pc' = [pc EXCEPT ![p] = l] /\ call' = [call EXCEPT ![p] = c1]
    BY <1>1, Unmoved DEF StoreAndGo, Goto
  <2> HIDE DEF k, l, c1
  <2> QED
    BY <1>1, <2>1, <2>2, Unmoved DEF Moves, kernel
<1> HIDE DEF k
<1>9. ASSUME Now(p, runs[p], config[p], l, c1, addrs[p], 0, k, sockets[p])
      PROVE  ProcessInv(p)'
  <2> USE <1>9 DEF Now
  <2>1. Labelled(p)'
    BY <1>3 DEF Labelled, NextCall
  <2>2. Finished(p)' = Finished(p) \cup {c0}
    BY <1>3, <1>4 DEF Finished, NextCall
  <2>3. \A c \in Calls : \A s : Wanted(p, c, s)' <=> Wanted(p, c, s)
    <3>1. \A c \in Calls : \A a : Place(p, c, a)' <=> Place(p, c, a)
      BY DEF Place, HostFor
    <3> QED
      BY <3>1 DEF Wanted
  <2>4. KnownSockets(p)'
    <3>1. ASSUME NEW c \in Finished(p)
          PROVE  /\ k[c] = known[p][c] /\ c \in Calls /\ c # "http"
                 /\ k[c] \in DOMAIN sockets[p] /\ Wanted(p, c, sockets[p][k[c]])
      <4>1. c \in Calls /\ c # c0 /\ c # "http"
        BY <1>3, <1>4
      <4>2. k[c] = known[p][c]
        BY <1>6, <4>1
      <4> QED
        BY <1>2, <4>1, <4>2 DEF KnownSockets
    <3>2. \/ k[c0] \in DOMAIN sockets[p] /\ Wanted(p, c0, sockets[p][k[c0]])
          \/ c0 = "http" /\ k[c0] = -1
      BY <1>5, <1>6 DEF Fresh
    <3>3. ASSUME NEW c \in Calls, c \notin Finished(p), c # c0 PROVE k[c] = 0
      BY <1>2, <1>6, <3>3 DEF KnownSockets
    <3>4. \A c \in Finished(p) : k[c] # k[c0]
      <4>1. ASSUME NEW c \in Finished(p) PROVE k[c] # fd
        <5>1. known[p][c] \in Int /\ known[p][c] >= 3
          BY <1>1, <3>1
        <5>2. fd = -1 \/ known[p][c] # fd
          BY <1>4, <1>5 DEF Fresh
        <5> QED
          BY <3>1, <5>1, <5>2
      <4> QED
        BY <1>6, <4>1
    <3>5. \A c, d \in Finished(p) : k[c] = k[d] => c = d
      BY <1>2, <3>1 DEF KnownSockets
    <3>6. \A c, d \in Finished(p) \cup {c0} : k[c] = k[d] => c = d
      BY <3>4, <3>5
    <3>7. ASSUME NEW c \in Calls
          PROVE  IF c \in Finished(p) \cup {c0}
                 THEN \/ k[c] \in DOMAIN sockets[p] /\ Wanted(p, c, sockets[p][k[c]])
                      \/ c = "http" /\ k[c] = -1
                 ELSE k[c] = 0
      BY <3>1, <3>2, <3>3
    <3> QED
      BY <2>2, <2>3, <3>6, <3>7 DEF KnownSockets
  <2>5. Trying(p)' /\ InHand(p)' /\ Returned(p)'
    BY DEF Trying, InHand, Returned
  <2>6. NoStrays(p)'
    <3>1. ASSUME NEW x \in DOMAIN sockets[p]
          PROVE  \/ \E c \in Calls : k[c] = x
                 \/ runs[p] # "client" /\ \/ GivenUp(<<p, x>>)
                                          \/ Unheard(<<p, x>>) /\ HttpLost(p)'
      <4>1. CASE x = fd
        BY <1>1, <1>6, <4>1
      <4>2. CASE \E c \in Calls : known[p][c] = x
        <5>1. PICK c \in Calls : known[p][c] = x
          BY <4>2
        <5>2. c # c0
          <6>1. known[p][c0] = 0
            BY <1>1, <1>2, <1>4 DEF KnownSockets
          <6> QED
            BY <1>1, <5>1, <6>1
        <5> QED
          BY <1>6, <5>1, <5>2
      <4>3. CASE x # fd /\ ~ \E c \in Calls : known[p][c] = x
        <5>1. \/ GivenUp(<<p, x>>)
              \/ Unheard(<<p, x>>) /\ HttpLost(p)
          BY <1>2, <1>3, <4>3 DEF NoStrays
        <5>2. ASSUME HttpLost(p) PROVE k["http"] = -1
          <6>1. known[p]["http"] = 0
            BY <1>2, <1>4 DEF KnownSockets, Calls
          <6>2. fd = -1 /\ c0 \in {"tcp", "http"}
            BY <5>2, <6>1 DEF HttpLost
          <6> QED
            BY <1>5, <1>6, <6>2
        <5> QED
          BY <5>1, <5>2 DEF HttpLost
      <4> QED
        BY <4>1, <4>2, <4>3
    <3> QED
      BY <3>1 DEF NoStrays, GivenUp, Unheard, Sock
  <2> QED
    BY <2>1, <2>4, <2>5, <2>6 DEF ProcessInv
<1> HIDE DEF l, c1
<1>10. 0 \in Int
  OBVIOUS
<1> QED
  BY <1>1, <1>6, <1>7, <1>8, <1>9, <1>10, StepKeeps

\* The end of a process: all that it had is gone.
LEMMA ExitKeeps ==
  ASSUME IInv, NEW p \in Procs, Exit(p)
  PROVE  IInv'
<1>1. Types /\ runs[p] \in Programs
  BY TypesOf
<1>2. NothingKnown \in [Calls -> Int] /\ \A c \in Calls : NothingKnown[c] = 0
  BY DEF NothingKnown
<1>3. Moves(p, runs[p], Defaults(runs[p]), "ended", "tcp", <<>>, 0, NothingKnown, <<>>)
  BY <1>1, Unmoved DEF Exit, Moves
<1>4. "ended" \in Labels /\ "tcp" \in Calls /\ 0 \in Int
  BY DEF Labels, Calls
<1>5. ASSUME Now(p, runs[p], Defaults(runs[p]), "ended", "tcp", <<>>, 0, NothingKnown, <<>>)
      PROVE  ProcessInv(p)'
  <2> USE <1>5 DEF Now
  <2>1. Labelled(p)'
    BY <1>1, NoSockets DEF Labelled
  <2>2. KnownSockets(p)'
    <3>1. Finished(p)' = {}
      BY DEF Finished
    <3> QED
      BY <1>2, <3>1 DEF KnownSockets
  <2>3. Trying(p)' /\ InHand(p)' /\ Returned(p)'
    BY DEF Trying, InHand, Returned
  <2>4. NoStrays(p)'
    BY NoSockets DEF NoStrays
  <2> QED
    BY <2>1, <2>2, <2>3, <2>4 DEF ProcessInv
<1>6. IsTable(<<>>)
  BY NoSockets
<1> QED
  BY <1>1, <1>2, <1>3, <1>4, <1>5, <1>6, StepKeeps

LEMMA BeginKeeps ==
  ASSUME IInv, NEW p \in Procs, NEW name, NEW first, Begin(p, name, first),
         \/ name = "server" /\ first = "tcp"
         \/ name = "client" /\ first = "external"
         \/ name = "heartbeat_client" /\ first = "local"
  PROVE  IInv'
<1>1. /\ Types /\ ProcessInv(p) /\ IsTable(sockets[p]) /\ sockfd[p] \in Int
      /\ known[p] \in [Calls -> Int]
  BY TypesOf
<1>2. /\ pc[p] = "ended" /\ runs' = [runs EXCEPT ![p] = name]
      /\ call' = [call EXCEPT ![p] = first] /\ Goto(p, "resolve")
      /\ UNCHANGED <<addrs, sockfd, known, kernel>>
      /\ \E g : config' = [config EXCEPT ![p] = g]
  BY DEF Begin
<1>3. DOMAIN sockets[p] = {} /\ \A c \in Calls : known[p][c] = 0
  <2>1. Finished(p) = {}
    BY <1>2 DEF Finished
  <2> QED
    BY <1>1, <1>2, <2>1 DEF ProcessInv, Labelled, KnownSockets
<1>4. PICK g : config' = [config EXCEPT ![p] = g]
  BY <1>2
<1>5. Moves(p, name, g, "resolve", first, addrs[p], sockfd[p], known[p], sockets[p])
  BY <1>1, <1>2, <1>4, Unmoved DEF Moves, Goto, kernel
<1>6. name \in Programs /\ first \in Calls /\ "resolve" \in Labels
  BY DEF Programs, Calls, Labels
<1>7. ASSUME Now(p, name, g, "resolve", first, addrs[p], sockfd[p], known[p], sockets[p])
      PROVE  ProcessInv(p)'
  <2> USE <1>7 DEF Now
  <2>1. Labelled(p)'
    BY DEF Labelled
  <2>2. KnownSockets(p)'
    <3>1. Finished(p)' = {}
      BY DEF Finished
    <3> QED
      BY <1>3, <3>1 DEF KnownSockets
  <2>3. Trying(p)' /\ InHand(p)' /\ Returned(p)'
    BY DEF Trying, InHand, Returned
  <2>4. NoStrays(p)'
    BY <1>3 DEF NoStrays
  <2> QED
    BY <2>1, <2>2, <2>3, <2>4 DEF ProcessInv
<1> QED
  BY <1>1, <1>5, <1>6, <1>7, StepKeeps

\* The server comes to work: HTTP may be lost, and main did not see it.
LEMMA CreatePoolKeeps ==
  ASSUME IInv, NEW p \in Procs, CreatePool(p), runs[p] = "server"
  PROVE  IInv'
<1>1. /\ Types /\ ProcessInv(p) /\ IsTable(sockets[p]) /\ sockfd[p] \in Int
      /\ runs[p] \in Programs /\ call[p] \in Calls /\ known[p] \in [Calls -> Int]
  BY TypesOf
<1>2. Labelled(p) /\ KnownSockets(p) /\ NoStrays(p) /\ pc[p] = "pool"
  BY <1>1 DEF ProcessInv, CreatePool
<1>3. call[p] = "http"
  BY <1>2 DEF Labelled
<1>4. CASE Goto(p, "works") /\ UNCHANGED <<runs, config, call, addrs, sockfd, known, kernel>>
  <2>1. Moves(p, runs[p], config[p], "works", call[p], addrs[p], sockfd[p], known[p], sockets[p])
    BY <1>1, <1>4, Unmoved DEF Moves, Goto, kernel
  <2>2. "works" \in Labels
    BY DEF Labels
  <2>3. ASSUME Now(p, runs[p], config[p], "works", call[p], addrs[p], sockfd[p], known[p],
                   sockets[p])
        PROVE  ProcessInv(p)'
    <3> USE <2>3 DEF Now
    <3>1. Labelled(p)'
      BY <1>3 DEF Labelled
    <3>2. KnownSockets(p)'
      <4>1. Finished(p)' = Finished(p)
        BY <1>2, <1>3 DEF Finished
      <4>2. \A c \in Calls : \A s : Wanted(p, c, s)' <=> Wanted(p, c, s)
        BY DEF Wanted, Place, HostFor
      <4> QED
        BY <1>2, <4>1, <4>2 DEF KnownSockets
    <3>3. Trying(p)' /\ InHand(p)' /\ Returned(p)'
      BY DEF Trying, InHand, Returned
    <3>4. NoStrays(p)'
      BY <1>2 DEF NoStrays, Holding, HttpLost, GivenUp, Unheard, Sock
    <3> QED
      BY <3>1, <3>2, <3>3, <3>4 DEF ProcessInv
  <2> QED
    BY <1>1, <2>1, <2>2, <2>3, StepKeeps
<1>5. CASE Exit(p)
  BY <1>5, ExitKeeps
<1> QED
  BY <1>4, <1>5 DEF CreatePool

\* A client comes to work with the socket it was given.
LEMMA ClientWorks ==
  ASSUME IInv, NEW p \in Procs, runs[p] = "client", pc[p] = "returned", sockfd[p] > 0,
         known' = [known EXCEPT ![p].external = sockfd[p]],
         Goto(p, "works"), UNCHANGED <<runs, config, call, addrs, sockfd, kernel>>
  PROVE  IInv'
<1> DEFINE fd == sockfd[p]
           k == [known[p] EXCEPT !["external"] = fd]
<1>1. /\ Types /\ ProcessInv(p) /\ IsTable(sockets[p]) /\ fd \in Int
      /\ runs[p] \in Programs /\ call[p] \in Calls /\ known[p] \in [Calls -> Int]
  BY TypesOf
<1>2. /\ Labelled(p) /\ KnownSockets(p) /\ Returned(p) /\ NoStrays(p)
      /\ call[p] = "external" /\ "external" \in Calls
  BY <1>1 DEF ProcessInv, Labelled, Calls
<1>3. Fresh(p) /\ Wanted(p, "external", sockets[p][fd])
  BY <1>1, <1>2 DEF Returned
<1>4. \A c \in Calls : known[p][c] = 0
  BY <1>2 DEF KnownSockets, Finished
<1>5. k \in [Calls -> Int] /\ k["external"] = fd /\ \A c \in Calls \ {"external"} : k[c] = 0
  BY <1>1, <1>2, <1>4
<1>6. Moves(p, runs[p], config[p], "works", call[p], addrs[p], fd, k, sockets[p])
  BY <1>1, Unmoved DEF Moves, Goto, kernel, Types
<1>7. "works" \in Labels
  BY DEF Labels
<1> HIDE DEF k
<1>8. ASSUME Now(p, runs[p], config[p], "works", call[p], addrs[p], fd, k, sockets[p])
      PROVE  ProcessInv(p)'
  <2> USE <1>8 DEF Now
  <2>1. Labelled(p)'
    BY <1>2 DEF Labelled
  <2>2. KnownSockets(p)'
    <3>1. Finished(p)' = {"external"}
      BY DEF Finished
    <3>2. \A s : Wanted(p, "external", s)' <=> Wanted(p, "external", s)
      BY DEF Wanted, Place, HostFor
    <3> QED
      BY <1>3, <1>5, <3>1, <3>2 DEF KnownSockets, Fresh
  <2>3. Trying(p)' /\ InHand(p)' /\ Returned(p)'
    BY <1>5 DEF Trying, InHand, Returned
  <2>4. NoStrays(p)'
    <3>1. ASSUME NEW x \in DOMAIN sockets[p] PROVE x = fd
      <4>1. ~ \E c \in Calls : known[p][c] = x
        BY <1>1, <1>4, TypesOf
      <4> QED
        BY <1>2, <4>1 DEF NoStrays
    <3> QED
      BY <1>2, <1>5, <3>1 DEF NoStrays
  <2> QED
    BY <2>1, <2>2, <2>3, <2>4 DEF ProcessInv
<1> QED
  BY <1>1, <1>5, <1>6, <1>7, <1>8, StepKeeps

LEMMA HeartbeatClientWorks ==
  ASSUME IInv, NEW p \in Procs, runs[p] = "heartbeat_client", pc[p] = "returned",
         sockfd[p] > 0, Goto(p, "works"),
         UNCHANGED <<runs, config, call, addrs, sockfd, known, kernel>>
  PROVE  IInv'
<1>1. /\ Types /\ ProcessInv(p) /\ IsTable(sockets[p]) /\ sockfd[p] \in Int
      /\ runs[p] \in Programs /\ call[p] \in Calls /\ known[p] \in [Calls -> Int]
  BY TypesOf
<1>2. /\ Labelled(p) /\ KnownSockets(p) /\ NoStrays(p)
      /\ call[p] = "external" /\ sockfd[p] = known[p].local
      /\ Place(p, "external", sockets[p][sockfd[p]].peer)
  BY <1>1 DEF ProcessInv, Returned
<1>3. Moves(p, runs[p], config[p], "works", call[p], addrs[p], sockfd[p], known[p], sockets[p])
  BY <1>1, Unmoved DEF Moves, Goto, kernel
<1>4. "works" \in Labels
  BY DEF Labels
<1>5. ASSUME Now(p, runs[p], config[p], "works", call[p], addrs[p], sockfd[p], known[p], sockets[p])
      PROVE  ProcessInv(p)'
  <2> USE <1>5 DEF Now
  <2>1. Labelled(p)'
    BY <1>2 DEF Labelled
  <2>2. KnownSockets(p)'
    <3>1. Finished(p)' = Finished(p)
      BY DEF Finished
    <3>2. \A c \in Calls : \A s : Wanted(p, c, s)' <=> Wanted(p, c, s)
      BY DEF Wanted, Place, HostFor
    <3> QED
      BY <1>2, <3>1, <3>2 DEF KnownSockets
  <2>3. Trying(p)' /\ InHand(p)'
    BY DEF Trying, InHand
  <2>4. Returned(p)'
    <3>1. \A a : Place(p, "external", a)' <=> Place(p, "external", a)
      BY DEF Place, HostFor
    <3> QED
      BY <1>2, <3>1 DEF Returned
  <2>5. NoStrays(p)'
    <3>1. "local" \in Calls
      BY DEF Calls
    <3>2. ASSUME NEW x \in DOMAIN sockets[p]
          PROVE  \/ \E c \in Calls : known[p][c] = x
                 \/ runs[p] # "client" /\ \/ GivenUp(<<p, x>>)
                                          \/ Unheard(<<p, x>>) /\ HttpLost(p)
      BY <1>2, <3>1 DEF NoStrays
    <3>3. HttpLost(p) => HttpLost(p)'
      BY <1>2 DEF HttpLost
    <3> QED
      BY <3>2, <3>3 DEF NoStrays, GivenUp, Unheard, Sock
  <2> QED
    BY <2>1, <2>2, <2>3, <2>4, <2>5 DEF ProcessInv
<1> QED
  BY <1>1, <1>3, <1>4, <1>5, StepKeeps

-------------------------------------------------------------------------------
(* All steps. *)

\* The connections that linger are no part of the invariant.
LEMMA NothingMoves ==
  ASSUME IInv, UNCHANGED <<runs, pc, config, call, addrs, sockfd, known, sockets>>
  PROVE  IInv'
<1>1. Types /\ Types'
  BY DEF IInv, Types
<1>2. ASSUME NEW p \in Procs PROVE ProcessInv(p)'
  <2>1. ProcessInv(p) /\ call[p] \in Calls
    BY TypesOf
  <2>2. Now(p, runs[p], config[p], pc[p], call[p], addrs[p], sockfd[p], known[p], sockets[p])
    BY DEF Now
  <2> QED
    BY <2>1, <2>2, Stays
<1> QED
  BY <1>1, <1>2 DEF IInv

LEMMA InitInv == Init => IInv
<1> SUFFICES ASSUME Init PROVE IInv
  OBVIOUS
<1>1. NothingKnown \in [Calls -> Int] /\ \A c \in Calls : NothingKnown[c] = 0
  BY DEF NothingKnown
<1>2. Types
  <2>1. "ended" \in Labels /\ "tcp" \in Calls
    BY DEF Labels, Calls
  <2> QED
    BY <1>1, <2>1, NoSockets DEF Init, Types
<1>3. ASSUME NEW p \in Procs PROVE ProcessInv(p)
  <2>1. pc[p] = "ended" /\ known[p] = NothingKnown /\ sockets[p] = <<>>
    BY DEF Init
  <2>2. Labelled(p)
    BY <2>1, NoSockets DEF Labelled
  <2>3. KnownSockets(p)
    BY <1>1, <2>1 DEF KnownSockets, Finished
  <2>4. Trying(p) /\ InHand(p) /\ Returned(p)
    BY <2>1 DEF Trying, InHand, Returned
  <2>5. NoStrays(p)
    BY <2>1, NoSockets DEF NoStrays
  <2> QED
    BY <2>2, <2>3, <2>4, <2>5 DEF ProcessInv
<1> QED
  BY <1>2, <1>3 DEF IInv

LEMMA SetupCallKeeps ==
  ASSUME IInv, NEW p \in Procs,
         \/ setup_server_tcp(p) \/ setup_server_udp(p) \/ setup_client(p)
         \/ setup_heartbeat_client(p)
  PROVE  IInv'
<1>1. Labelled(p)
  BY TypesOf DEF ProcessInv
<1>2. CASE setup_server_tcp(p)
  <2>1. call[p] \in {"tcp", "http"}
    BY <1>2 DEF setup_server_tcp
  <2>2. CASE Getaddrinfo(p)
    <3>1. runs[p] # "heartbeat_client"
      BY <1>1, <2>1, <2>2 DEF Labelled, Getaddrinfo
    <3> QED
      BY <2>2, <3>1, GetaddrinfoKeeps
  <2>3. CASE NoAddressLeft(p)
    BY <2>3, NoAddressLeftKeeps
  <2>4. CASE Socket(p, "tcp", "setsockopt")
    BY <2>1, <2>4, SocketCallKeeps
  <2>5. CASE Setsockopt(p)
    BY <2>1, <2>5, SetsockoptKeeps
  <2>6. CASE Bind(p, "listen")
    BY <2>1, <2>6, BindCallKeeps
  <2>7. CASE Listen(p)
    BY <2>1, <2>7, ListenKeeps
  <2> QED
    BY <1>2, <2>2, <2>3, <2>4, <2>5, <2>6, <2>7 DEF setup_server_tcp
<1>3. CASE setup_server_udp(p)
  <2>1. call[p] = "udp"
    BY <1>3 DEF setup_server_udp
  <2>2. CASE Getaddrinfo(p)
    <3>1. runs[p] # "heartbeat_client"
      BY <1>1, <2>1, <2>2 DEF Labelled, Getaddrinfo
    <3> QED
      BY <2>2, <3>1, GetaddrinfoKeeps
  <2>3. CASE NoAddressLeft(p)
    BY <2>3, NoAddressLeftKeeps
  <2>4. CASE Socket(p, "udp", "setsockopt")
    BY <2>1, <2>4, SocketCallKeeps
  <2>5. CASE Setsockopt(p)
    BY <2>1, <2>5, SetsockoptKeeps
  <2>6. CASE Bind(p, "bound")
    BY <2>1, <2>6, BindCallKeeps
  <2>7. CASE Bound(p)
    BY <2>1, <2>7, BoundKeeps
  <2> QED
    BY <1>3, <2>2, <2>3, <2>4, <2>5, <2>6, <2>7 DEF setup_server_udp
<1>4. CASE setup_client(p)
  <2>1. runs[p] = "client"
    BY <1>4 DEF setup_client
  <2>2. CASE Getaddrinfo(p)
    BY <2>1, <2>2, GetaddrinfoKeeps
  <2>3. CASE NoAddressLeft(p)
    BY <2>3, NoAddressLeftKeeps
  <2>4. CASE Socket(p, "tcp", "connect")
    BY <2>1, <2>4, SocketCallKeeps
  <2>5. CASE Connect(p)
    BY <2>1, <2>5, ConnectKeeps
  <2> QED
    BY <1>4, <2>2, <2>3, <2>4, <2>5 DEF setup_client
<1>5. CASE setup_heartbeat_client(p)
  <2>1. ASSUME call[p] = "local" PROVE call[p] \in {"tcp", "http", "udp", "local"}
    BY <2>1
  <2>2. CASE call[p] = "local" /\ Getaddrinfo(p)
    BY <2>2, GetaddrinfoKeeps
  <2>3. CASE NoAddressLeft(p)
    BY <2>3, NoAddressLeftKeeps
  <2>4. CASE call[p] = "local" /\ Socket(p, "udp", "setsockopt")
    BY <2>4, SocketCallKeeps
  <2>5. CASE call[p] = "local" /\ Setsockopt(p)
    BY <2>1, <2>5, SetsockoptKeeps
  <2>6. CASE call[p] = "local" /\ Bind(p, "bound")
    BY <2>6, BindCallKeeps
  <2>7. CASE call[p] = "local" /\ CreateData(p)
    BY <2>7, CreateDataKeeps
  <2>8. CASE call[p] = "external" /\ runs[p] = "heartbeat_client" /\ KeepFirst(p)
    BY <2>8, KeepFirstKeeps
  <2> QED
    BY <1>5, <2>2, <2>3, <2>4, <2>5, <2>6, <2>7, <2>8 DEF setup_heartbeat_client
<1> QED
  BY <1>2, <1>3, <1>4, <1>5

LEMMA MainKeeps ==
  ASSUME IInv, NEW p \in Procs, main_server(p) \/ main_client(p) \/ main_heartbeat_client(p)
  PROVE  IInv'
<1>1. CASE Exit(p)
  BY <1>1, ExitKeeps
<1>2. CASE \/ Begin(p, "server", "tcp") \/ Begin(p, "client", "external")
           \/ Begin(p, "heartbeat_client", "local")
  BY <1>2, BeginKeeps
<1>3. CASE main_server(p)
  <2>1. CASE runs[p] = "server" /\ pc[p] = "returned" /\ Tested(p) > 0 /\ StoreAndGo(p)
    BY <2>1, StoreAndGoKeeps
  <2>2. CASE runs[p] = "server" /\ CreatePool(p)
    BY <2>2, CreatePoolKeeps
  <2> QED
    BY <1>1, <1>2, <1>3, <2>1, <2>2 DEF main_server
<1>4. CASE main_client(p)
  BY <1>1, <1>2, <1>4, ClientWorks DEF main_client
<1>5. CASE main_heartbeat_client(p)
  BY <1>1, <1>2, <1>5, HeartbeatClientWorks DEF main_heartbeat_client
<1> QED
  BY <1>3, <1>4, <1>5

LEMMA StepInv == IInv /\ [Next]_vars => IInv'
<1>1. ASSUME IInv, Expire PROVE IInv'
  BY <1>1, NothingMoves DEF Expire
<1>2. ASSUME IInv, NEW p \in Procs, Step(p) PROVE IInv'
  BY <1>2, SetupCallKeeps, MainKeeps DEF Step
<1>3. ASSUME IInv, UNCHANGED vars PROVE IInv'
  BY <1>3, NothingMoves DEF vars
<1> QED
  BY <1>1, <1>2, <1>3 DEF Next

LEMMA Invariance == Spec => []IInv
BY InitInv, StepInv, PTL DEF Spec

-------------------------------------------------------------------------------
(* What the invariant says of a process that works. *)

\* No process holds a socket that is neither one of those it works with nor one
\* of those the setup functions give up: in particular none sits on an address
\* that it was refused, whoever else came and went meanwhile.
THEOREM NoStraySocketHolds == Spec => []NoStraySocket
<1>1. IInv => NoStraySocket
  <2> SUFFICES ASSUME IInv, NEW p \in Procs, pc[p] = "works", NEW s \in AllSockets, s[1] = p
               PROVE  \/ s[2] \in {known[p][c] : c \in Calls}
                      \/ runs[p] # "client" /\ (GivenUp(s) \/ (Unheard(s) /\ known[p].http = -1))
    BY DEF NoStraySocket
  <2>1. s = <<p, s[2]>> /\ s[2] \in DOMAIN sockets[p]
    BY DEF AllSockets
  <2>2. NoStrays(p)
    BY TypesOf DEF ProcessInv
  <2> DEFINE fd == s[2]
  <2>3. \/ \E c \in Calls : known[p][c] = fd
        \/ runs[p] # "client" /\ (GivenUp(<<p, fd>>) \/ (Unheard(<<p, fd>>) /\ known[p].http = -1))
    BY <2>1, <2>2 DEF NoStrays, Holding, HttpLost
  <2>4. CASE \E c \in Calls : known[p][c] = fd
    BY <2>4
  <2>5. CASE ~ \E c \in Calls : known[p][c] = fd
    <3> HIDE DEF fd
    <3>1. s = <<p, fd>>
      BY <2>1 DEF fd
    <3> QED
      BY <2>3, <2>5, <3>1
  <2> QED
    BY <2>4, <2>5
<1> QED
  BY <1>1, Invariance, PTL

\* A server that works has its sockets, each one its own and in the state that
\* its service needs, whichever of the calls failed on the way.
THEOREM ReadyToServeHolds == Spec => []ReadyToServe
<1>1. IInv => ReadyToServe
  <2> SUFFICES ASSUME IInv, NEW p \in Procs, runs[p] = "server", pc[p] = "works"
               PROVE  /\ \A c \in {"tcp", "udp", "http"} :
                           \/ /\ known[p][c] \in DOMAIN sockets[p]
                              /\ sockets[p][known[p][c]].state =
                                   IF c = "udp" THEN "bound" ELSE "listening"
                              /\ sockets[p][known[p][c]].addr.port = config[p][PortOf(c)]
                           \/ c = "http" /\ known[p][c] = -1
                      /\ \A c, d \in {"tcp", "udp", "http"} : known[p][c] = known[p][d] => c = d
    BY DEF ReadyToServe
  <2>1. KnownSockets(p) /\ Labelled(p)
    BY TypesOf DEF ProcessInv
  <2>2. Finished(p) = {"tcp", "udp", "http"}
    BY <2>1 DEF Finished, Labelled
  <2>3. ASSUME NEW c \in {"tcp", "udp", "http"}
        PROVE  \/ /\ known[p][c] \in DOMAIN sockets[p]
                  /\ sockets[p][known[p][c]].state = IF c = "udp" THEN "bound" ELSE "listening"
                  /\ sockets[p][known[p][c]].addr.port = config[p][PortOf(c)]
               \/ c = "http" /\ known[p][c] = -1
    <3>1. c \in Calls /\ c \in Finished(p)
      BY <2>2 DEF Calls
    <3>2. \/ known[p][c] \in DOMAIN sockets[p] /\ Wanted(p, c, sockets[p][known[p][c]])
          \/ c = "http" /\ known[p][c] = -1
      BY <2>1, <3>1 DEF KnownSockets
    <3> QED
      BY <3>2 DEF Wanted, Place
  <2>4. \A c, d \in {"tcp", "udp", "http"} : known[p][c] = known[p][d] => c = d
    BY <2>1, <2>2 DEF KnownSockets
  <2> QED
    BY <2>3, <2>4
<1> QED
  BY <1>1, Invariance, PTL

-------------------------------------------------------------------------------
(* The defaults of the three programs. *)

\* Where a host is an address of this machine, a call is at that address.
LEMMA AtLocalAddress ==
  ASSUME NEW ip \in LocalAddresses
  PROVE  AddressesOf(ip) \subseteq {ip}
<1>1. CASE ip \in DOMAIN Addresses
  <2>1. Addresses[ip] = <<ip>>
    BY <1>1, NumericAssumption
  <2> QED
    BY <1>1, <2>1 DEF AddressesOf
<1>2. CASE ip \notin DOMAIN Addresses
  BY <1>2 DEF AddressesOf
<1> QED
  BY <1>1, <1>2

\* Where a server on its defaults has its sockets.
LEMMA ServerPlaces ==
  ASSUME IInv, NEW q \in Procs, runs[q] = "server", pc[q] = "works", OnDefaults(q),
         NEW c \in {"tcp", "udp", "http"}, known[q][c] # -1
  PROVE  LET addr == sockets[q][known[q][c]].addr IN
         /\ addr.ip = IF c = "http" THEN "0.0.0.0" ELSE "127.0.0.1"
         /\ addr.port = IF c = "tcp" THEN "3490" ELSE IF c = "udp" THEN "3491" ELSE "3030"
<1>1. KnownSockets(q) /\ Labelled(q)
  BY TypesOf DEF ProcessInv
<1>2. c \in Finished(q) /\ c \in Calls
  BY <1>1 DEF Finished, Labelled, Calls
<1> DEFINE addr == sockets[q][known[q][c]].addr
<1>3. Place(q, c, addr)
  <2>1. Wanted(q, c, sockets[q][known[q][c]])
    BY <1>1, <1>2 DEF KnownSockets
  <2> QED
    BY <2>1 DEF Wanted
<1>4. /\ config[q]["--local-ip"] = "127.0.0.1"
      /\ config[q]["--local-port-tcp"] = "3490" /\ config[q]["--local-port-udp"] = "3491"
      /\ config[q]["--local-port-tcp-http"] = "3030"
  <2> DEFINE told == {"--local-ip", "--local-port-tcp", "--local-port-udp", "--local-port-tcp-http"}
  <2>1. /\ ServerDefaults["--local-ip"] = "127.0.0.1"
        /\ ServerDefaults["--local-port-tcp"] = "3490"
        /\ ServerDefaults["--local-port-udp"] = "3491"
        /\ ServerDefaults["--local-port-tcp-http"] = "3030"
    BY DEF ServerDefaults
  <2>2. told \subseteq DOMAIN ServerDefaults \ {"--mode", "--threads", "--queue"}
    BY DEF ServerDefaults
  <2>3. Defaults(runs[q]) = ServerDefaults
    BY DEF Defaults
  <2>4. \A option \in told : config[q][option] = ServerDefaults[option]
    BY <2>2, <2>3 DEF OnDefaults
  <2> QED
    BY <2>1, <2>4
<1>5. HostFor(q, c) = IF c = "http" THEN "0.0.0.0" ELSE "127.0.0.1"
  BY <1>4 DEF HostFor, HostOf, INADDR_ANY
<1>6. config[q][PortOf(c)] = IF c = "tcp" THEN "3490" ELSE IF c = "udp" THEN "3491" ELSE "3030"
  BY <1>4 DEF PortOf
<1>7. HostFor(q, c) \in LocalAddresses
  BY <1>5 DEF LocalAddresses, INADDR_ANY
<1> HIDE DEF addr
<1>8. addr.ip \in {HostFor(q, c)}
  BY <1>3, <1>7, AtLocalAddress DEF Place
<1> QED
  BY <1>3, <1>5, <1>6, <1>8 DEF Place, addr

\* Where a client on its defaults has its server.
LEMMA PeerPlaces ==
  ASSUME IInv, NEW p \in Procs, runs[p] # "server", pc[p] = "works", OnDefaults(p)
  PROVE  LET peer == sockets[p][sockfd[p]].peer IN
         /\ peer.ip = IF Service(p) = "http" THEN "0.0.0.0" ELSE "127.0.0.1"
         /\ peer.port = CASE Service(p) = "tcp" -> "3490" [] Service(p) = "udp" -> "3491"
                          [] Service(p) = "http" -> "3030"
         /\ Service(p) \in {"tcp", "udp", "http"}
<1>1. Labelled(p) /\ KnownSockets(p) /\ Returned(p)
  BY TypesOf DEF ProcessInv
<1>2. runs[p] \in {"client", "heartbeat_client"}
  BY TypesOf DEF Programs
<1> DEFINE peer == sockets[p][sockfd[p]].peer
           host == config[p]["--external-ip"]
<1>3. Place(p, "external", peer)
  <2>1. CASE runs[p] = "client"
    <3>1. "external" \in Finished(p) /\ "external" \in Calls
      BY <1>1, <2>1 DEF Finished, Calls
    <3>2. Wanted(p, "external", sockets[p][known[p]["external"]])
      BY <1>1, <3>1 DEF KnownSockets
    <3>3. sockfd[p] = known[p]["external"]
      BY <1>1, <2>1 DEF Returned
    <3> QED
      BY <3>2, <3>3 DEF Wanted
  <2>2. CASE runs[p] = "heartbeat_client"
    BY <1>1, <2>2 DEF Returned
  <2> QED
    BY <1>2, <2>1, <2>2
<1>4. /\ host = IF Service(p) = "http" THEN "0.0.0.0" ELSE "127.0.0.1"
      /\ config[p]["--external-port"] =
           CASE Service(p) = "tcp" -> "3490" [] Service(p) = "udp" -> "3491"
             [] Service(p) = "http" -> "3030"
      /\ Service(p) \in {"tcp", "udp", "http"}
  <2>1. CASE runs[p] = "client"
    <3> DEFINE told == AssignDefaults([ClientDefaults EXCEPT !["--mode"] = config[p]["--mode"]])
               m == config[p]["--mode"]
    <3>1. /\ {"--external-ip", "--external-port"} \subseteq
               DOMAIN Defaults(runs[p]) \ {"--mode", "--threads", "--queue"}
      BY <2>1 DEF Defaults, ClientDefaults
    <3>2. /\ told["--external-ip"] = IF m = 0 THEN "127.0.0.1" ELSE "0.0.0.0"
          /\ told["--external-port"] = IF m = 0 THEN "3490" ELSE "3030"
      BY DEF AssignDefaults, ClientDefaults
    <3>3. /\ host = told["--external-ip"]
          /\ config[p]["--external-port"] = told["--external-port"]
      BY <2>1, <3>1 DEF OnDefaults
    <3>4. Service(p) = IF m = 0 THEN "tcp" ELSE "http"
      BY <2>1 DEF Service
    <3> HIDE DEF told, m, host
    <3> QED
      BY <3>2, <3>3, <3>4
  <2>2. CASE runs[p] = "heartbeat_client"
    <3>1. Service(p) = "udp"
      BY <2>2 DEF Service
    <3>2. host = "127.0.0.1" /\ config[p]["--external-port"] = "3491"
      BY <2>2 DEF OnDefaults, Defaults, HeartbeatDefaults
    <3> QED
      BY <3>1, <3>2
  <2> QED
    BY <1>2, <2>1, <2>2
<1>5. peer.ip \in AddressesOf(host) /\ peer.port = config[p]["--external-port"]
  BY <1>3 DEF Place, HostFor, HostOf, PortOf
<1>6. host \in LocalAddresses
  BY <1>4 DEF LocalAddresses, INADDR_ANY
<1> HIDE DEF peer, host
<1>7. peer.ip = host
  BY <1>5, <1>6, AtLocalAddress
<1> QED
  BY <1>4, <1>5, <1>7 DEF peer

\* What the programs were not told agrees: a client's mode leads it to that mode's
\* service of a server, and to no other.
THEOREM ModeMeetsServiceHolds == Spec => []ModeMeetsService
<1>1. IInv => ModeMeetsService
  <2> SUFFICES ASSUME IInv, NEW p \in Procs, NEW q \in Procs,
                      runs[p] # "server", pc[p] = "works", OnDefaults(p),
                      runs[q] = "server", pc[q] = "works", OnDefaults(q),
                      NEW c \in {"tcp", "udp", "http"}, known[q][c] # -1
               PROVE  Overlap(sockets[q][known[q][c]].addr, sockets[p][sockfd[p]].peer)
                        <=> c = Service(p)
    BY DEF ModeMeetsService
  <2> DEFINE addr == sockets[q][known[q][c]].addr
             peer == sockets[p][sockfd[p]].peer
  <2>1. /\ addr.ip = IF c = "http" THEN "0.0.0.0" ELSE "127.0.0.1"
        /\ addr.port = IF c = "tcp" THEN "3490" ELSE IF c = "udp" THEN "3491" ELSE "3030"
    BY ServerPlaces
  <2>2. /\ peer.ip = IF Service(p) = "http" THEN "0.0.0.0" ELSE "127.0.0.1"
        /\ peer.port = CASE Service(p) = "tcp" -> "3490" [] Service(p) = "udp" -> "3491"
                         [] Service(p) = "http" -> "3030"
        /\ Service(p) \in {"tcp", "udp", "http"}
    BY PeerPlaces
  <2> HIDE DEF addr, peer
  <2>3. Overlap(addr, peer) <=> c = Service(p)
    BY <2>1, <2>2 DEF Overlap, INADDR_ANY
  <2> QED
    BY <2>3 DEF addr, peer
<1> QED
  BY <1>1, Invariance, PTL

-------------------------------------------------------------------------------
(* Who is refused an address. *)

LEMMA SocketsOfAll ==
  ASSUME IInv, NEW s \in AllSockets
  PROVE  IsSocket(Sock(s))
<1>1. PICK q \in Procs : s \in {q} \X DOMAIN sockets[q]
  BY DEF AllSockets
<1>2. s[1] = q /\ s[2] \in DOMAIN sockets[q]
  BY <1>1
<1> QED
  BY <1>2, TypesOf DEF Sock

\* Every socket that is in use at an address may share it, and so may one that is
\* to be bound: only a listener is in the way, and nothing that lingers.  With the
\* steps of all other processes in between, this is what SO_REUSEADDR on each
\* socket is for.
THEOREM OnlyLiveSocketsRefuseHolds == Spec => OnlyLiveSocketsRefuse
<1> DEFINE Refused(p) ==
             \/ Head(addrs[p]) \notin LocalAddresses
             \/ \E s \in AllSockets : /\ s # <<p, sockfd[p]>> /\ Sock(s).state = "listening"
                                      /\ Overlap(Sock(s).addr, Addr(p))
<1>1. ASSUME IInv, NEW p \in Procs, pc[p] = "bind", ~ MayBind(<<p, sockfd[p]>>, Addr(p))
      PROVE  Refused(p)
  <2> DEFINE mine == <<p, sockfd[p]>>
  <2>1. Sock(mine).reuse
    BY <1>1, HasSocket DEF InHand, Sock
  <2>2. CASE Addr(p).ip \notin LocalAddresses
    BY <2>2 DEF Addr
  <2>3. CASE InTheWay(mine, Addr(p)) # {}
    <3>1. PICK t \in AllSockets \ {mine} :
            /\ Sock(t).state \in {"bound", "listening"} /\ Overlap(Sock(t).addr, Addr(p))
            /\ Sock(t).state = "listening" \/ ~ Sock(t).reuse \/ ~ Sock(mine).reuse
      BY <2>3 DEF InTheWay
    <3>2. Sock(t).reuse
      BY <1>1, <3>1, SocketsOfAll DEF IsSocket
    <3> QED
      BY <2>1, <3>1, <3>2
  <2> QED
    BY <1>1, <2>1, <2>2, <2>3 DEF MayBind
<1>2. ASSUME IInv, NEW p \in Procs, NEW q \in Procs, Step(q),
             pc[p] = "bind", pc'[p] = "socket"
      PROVE  ~ MayBind(<<p, sockfd[p]>>, Addr(p))
  <2>1. pc \in [Procs -> Labels]
    BY <1>2 DEF IInv, Types
  <2>2. q = p
    <3>1. \E l : pc' = [pc EXCEPT ![q] = l]
      BY <1>2, <2>1 DEF Step, main_server, main_client, main_heartbeat_client, setup_server_tcp,
           setup_server_udp, setup_client, setup_heartbeat_client, Begin, StoreAndGo, CreatePool,
           Exit, Getaddrinfo, NoAddressLeft, Socket, Setsockopt, Bind, Listen, Bound, Connect,
           CreateData, KeepFirst, Return, NextAddress, Goto
    <3> QED
      BY <1>2, <2>1, <3>1
  <2>3. \E next \in {"listen", "bound"} : Bind(p, next)
    BY <1>2, <2>1, <2>2 DEF Step, main_server, main_client, main_heartbeat_client,
         setup_server_tcp, setup_server_udp, setup_client, setup_heartbeat_client, Begin,
         StoreAndGo, CreatePool, Exit, Getaddrinfo, NoAddressLeft, Socket, Setsockopt, Listen,
         Bound, Connect, CreateData, KeepFirst, Return, NextAddress, Goto
  <2> QED
    BY <1>2, <2>1, <2>3 DEF Bind, Goto
<1>3. ASSUME IInv, [Next]_vars
      PROVE  \A p \in Procs : pc[p] = "bind" /\ pc'[p] = "socket" => Refused(p)
  <2> SUFFICES ASSUME NEW p \in Procs, pc[p] = "bind", pc'[p] = "socket" PROVE Refused(p)
    OBVIOUS
  <2>1. PICK q \in Procs : Step(q)
    BY <1>3 DEF Next, Expire, vars
  <2>2. ~ MayBind(<<p, sockfd[p]>>, Addr(p))
    BY <1>2, <1>3, <2>1
  <2> QED
    BY <1>1, <1>3, <2>2
<1>4. IInv /\ [Next]_vars =>
        [\A p \in Procs :
           pc[p] = "bind" /\ pc'[p] = "socket" =>
             \/ Head(addrs[p]) \notin LocalAddresses
             \/ \E s \in AllSockets : /\ s # <<p, sockfd[p]>> /\ Sock(s).state = "listening"
                                      /\ Overlap(Sock(s).addr, Addr(p))]_vars
  BY <1>3
<1> QED
  BY <1>4, Invariance, PTL DEF Spec, OnlyLiveSocketsRefuse

-------------------------------------------------------------------------------
(* Command lines.  What the loop has read after each word is said by       *)
(* Setting for the pairs so far; the least word after which it would not   *)
(* be so does not exist.                                                   *)

LEMMA GreatestNumber ==
  ASSUME NEW k \in Nat, NEW T, T \subseteq 0 .. k, T # {}
  PROVE  Max(T) \in T /\ \A m \in T : m <= Max(T)
<1> DEFINE Rest == {k - m : m \in T}
<1>1. Rest \subseteq Nat /\ Rest # {}
  <2>1. \A m \in T : k - m \in Nat
    OBVIOUS
  <2>2. \E m : m \in T
    OBVIOUS
  <2> QED
    BY <2>1, <2>2
<1> HIDE DEF Rest
<1>2. PICK r \in Rest : \A q \in Rest : r <= q
  BY <1>1, LeastNumber
<1>3. \E x \in T : \A m \in T : x >= m
  <2>1. PICK x \in T : r = k - x
    BY <1>2 DEF Rest
  <2>2. ASSUME NEW m \in T PROVE x >= m
    <3>1. k - m \in Rest /\ m \in Nat /\ x \in Nat
      BY DEF Rest
    <3> QED
      BY <1>2, <2>1, <3>1
  <2> QED
    BY <2>2
<1>4. Max(T) \in T /\ \A m \in T : Max(T) >= m
  BY <1>3 DEF Max
<1> QED
  BY <1>4

LEMMA GreatestIs ==
  ASSUME NEW k \in Nat, NEW T, T \subseteq 0 .. k, k \in T
  PROVE  Max(T) = k
<1>1. Max(T) \in T /\ k <= Max(T)
  BY GreatestNumber
<1>2. PICK m : m = Max(T)
  OBVIOUS
<1>3. m \in 0 .. k /\ k <= m
  BY <1>1, <1>2
<1>4. m = k
  BY <1>3
<1> QED
  BY <1>2, <1>4

\* How many pairs there are: behind them stands no other.
LEMMA Pairs ==
  ASSUME NEW name, NEW argv, Len(argv) \in Nat
  PROVE  LET n == PairsOf(name, argv) IN
         /\ n \in Nat /\ 2 * n <= Len(argv)
         /\ \A k \in 1 .. n : Pair(name, argv, 2 * k - 1)
         /\ 2 * n + 2 <= Len(argv) => ~ Pair(name, argv, 2 * n + 1)
<1> DEFINE half == Len(argv) \div 2
           T == {n \in 0 .. half : \A k \in 1 .. n : Pair(name, argv, 2 * k - 1)}
<1>1. half \in Nat /\ 2 * half <= Len(argv) /\ Len(argv) <= 2 * half + 1
  OBVIOUS
<1>2. PairsOf(name, argv) = Max(T)
  BY DEF PairsOf
<1>3. T \subseteq 0 .. half /\ 0 \in T
  BY <1>1
<1>4. Max(T) \in T /\ \A m \in T : m <= Max(T)
  <2> HIDE DEF T, half
  <2> QED
    BY <1>1, <1>3, GreatestNumber
<1>5. PICK n : n = Max(T)
  OBVIOUS
<1>6. n \in 0 .. half /\ \A k \in 1 .. n : Pair(name, argv, 2 * k - 1)
  BY <1>4, <1>5
<1>7. ASSUME 2 * n + 2 <= Len(argv), Pair(name, argv, 2 * n + 1) PROVE FALSE
  <2>1. n + 1 \in 0 .. half
    BY <1>1, <1>6, <1>7
  <2>2. \A k \in 1 .. n + 1 : Pair(name, argv, 2 * k - 1)
    <3> SUFFICES ASSUME NEW k \in 1 .. n + 1 PROVE Pair(name, argv, 2 * k - 1)
      OBVIOUS
    <3>1. CASE k = n + 1
      <4>1. 2 * k - 1 = 2 * n + 1
        BY <1>6, <3>1
      <4> QED
        BY <1>7, <4>1
    <3>2. CASE k # n + 1
      BY <1>6, <3>2
    <3> QED
      BY <3>1, <3>2
  <2>3. n + 1 \in T
    BY <2>1, <2>2
  <2>4. n + 1 <= n
    BY <1>4, <1>5, <2>3
  <2>5. n \in Nat
    BY <1>1, <1>6
  <2> QED
    BY <2>4, <2>5
<1>8. 2 * n <= Len(argv)
  BY <1>1, <1>6
<1> QED
  BY <1>2, <1>5, <1>6, <1>7, <1>8

\* The configuration after so many pairs.
Config(name, argv, n) == [o \in DOMAIN Defaults(name) |-> Setting(name, argv, o, n)]

LEMMA Options ==
  ASSUME NEW name \in Programs
  PROVE  /\ Defaults(name) = [o \in DOMAIN Defaults(name) |-> Defaults(name)[o]]
         /\ name = "server" => "--mode" \notin DOMAIN Defaults(name) /\ "--resource" \notin DOMAIN Defaults(name)
         /\ name = "client" => /\ "--threads" \notin DOMAIN Defaults(name)
                               /\ "--queue" \notin DOMAIN Defaults(name)
         /\ name = "heartbeat_client" =>
              \A o \in DOMAIN Defaults(name) :
                o \notin {"--threads", "--queue", "--mode", "--resource"}
         /\ "--help" \notin DOMAIN Defaults(name) /\ "--version" \notin DOMAIN Defaults(name)
<1>1. CASE name = "server"
  <2>1. Defaults(name) = ServerDefaults
    BY <1>1 DEF Defaults
  <2> QED
    BY <1>1, <2>1 DEF ServerDefaults
<1>2. CASE name = "client"
  <2>1. Defaults(name) = ClientDefaults
    BY <1>2 DEF Defaults
  <2> QED
    BY <1>2, <2>1 DEF ClientDefaults
<1>3. CASE name = "heartbeat_client"
  <2>1. Defaults(name) = HeartbeatDefaults
    BY <1>3 DEF Defaults
  <2> QED
    BY <1>3, <2>1 DEF HeartbeatDefaults
<1> QED
  BY <1>1, <1>2, <1>3 DEF Programs

LEMMA NothingRead ==
  ASSUME NEW name \in Programs, NEW argv
  PROVE  Config(name, argv, 0) = Defaults(name)
<1>1. \A o : Settings(argv, o, 0) = {}
  BY DEF Settings
<1>2. \A o : Setting(name, argv, o, 0) = Defaults(name)[o]
  BY <1>1 DEF Setting
<1> QED
  BY <1>2, Options DEF Config

\* One pair more changes its option, unless it is a resource "/".
LEMMA PairTaken ==
  ASSUME NEW argv, NEW o, NEW n \in Nat,
         argv[2 * n + 1] = o /\ (o = "--resource" => argv[2 * n + 2] # "/")
  PROVE  /\ Settings(argv, o, n + 1) # {}
         /\ 2 * Max(Settings(argv, o, n + 1)) = 2 * n + 2
<1> DEFINE T == Settings(argv, o, n + 1)
<1>1. 2 * (n + 1) - 1 = 2 * n + 1 /\ 2 * (n + 1) = 2 * n + 2 /\ n + 1 \in 1 .. n + 1
  OBVIOUS
<1>2. n + 1 \in T
  BY <1>1 DEF Settings
<1>3. T \subseteq 0 .. n + 1
  BY DEF Settings
<1> HIDE DEF T
<1>4. Max(T) = n + 1
  <2>1. PICK k : k = n + 1
    OBVIOUS
  <2>2. k \in Nat /\ k \in T /\ T \subseteq 0 .. k
    BY <1>2, <1>3, <2>1
  <2> QED
    BY <2>1, <2>2, GreatestIs
<1> QED
  BY <1>2, <1>4 DEF T

LEMMA PairLeft ==
  ASSUME NEW argv, NEW o, NEW n \in Nat,
         ~ (argv[2 * n + 1] = o /\ (o = "--resource" => argv[2 * n + 2] # "/"))
  PROVE  Settings(argv, o, n + 1) = Settings(argv, o, n)
<1> DEFINE Sets(k) == argv[2 * k - 1] = o /\ (o = "--resource" => argv[2 * k] # "/")
<1>1. 2 * (n + 1) - 1 = 2 * n + 1 /\ 2 * (n + 1) = 2 * n + 2
  OBVIOUS
<1>2. ~ Sets(n + 1)
  BY <1>1
<1>3. \A m \in Nat : Settings(argv, o, m) = {k \in 1 .. m : Sets(k)}
  BY DEF Settings
<1>4. n + 1 \in Nat
  OBVIOUS
<1>5. /\ Settings(argv, o, n) = {k \in 1 .. n : Sets(k)}
      /\ Settings(argv, o, n + 1) = {k \in 1 .. n + 1 : Sets(k)}
  BY <1>3, <1>4
<1> HIDE DEF Sets
<1>6. {k \in 1 .. n + 1 : Sets(k)} = {k \in 1 .. n : Sets(k)}
  BY <1>2
<1> QED
  BY <1>5, <1>6

LEMMA StoreSets ==
  ASSUME NEW name \in Programs, NEW argv, NEW n \in Nat, Pair(name, argv, 2 * n + 1)
  PROVE  Store(name, Config(name, argv, n), argv[2 * n + 1], argv[2 * n + 2])
           = Config(name, argv, n + 1)
<1>1. PICK option, value, before, D :
        /\ option = argv[2 * n + 1] /\ value = argv[2 * n + 2]
        /\ before = Config(name, argv, n) /\ D = DOMAIN Defaults(name)
  OBVIOUS
<1>2. option \in D
  BY <1>1 DEF Pair
<1>3. ASSUME NEW o \in D, o # option \/ (option = "--resource" /\ value = "/")
      PROVE  Setting(name, argv, o, n + 1) = before[o]
  <2>1. Settings(argv, o, n + 1) = Settings(argv, o, n)
    BY <1>1, <1>3, PairLeft
  <2>2. before[o] = Setting(name, argv, o, n)
    BY <1>1 DEF Config
  <2> QED
    BY <2>1, <2>2 DEF Setting
<1>4. ASSUME ~ (option = "--resource" /\ value = "/")
      PROVE  Setting(name, argv, option, n + 1) =
               IF option \in {"--threads", "--queue", "--mode"} THEN atoi(value) ELSE value
  <2>1. /\ Settings(argv, option, n + 1) # {}
        /\ 2 * Max(Settings(argv, option, n + 1)) = 2 * n + 2
    BY <1>1, <1>4, PairTaken
  <2> QED
    BY <1>1, <2>1 DEF Setting
<1>5. before = [o \in D |-> before[o]]
  BY <1>1 DEF Config
<1>6. Config(name, argv, n + 1) = [o \in D |-> Setting(name, argv, o, n + 1)]
  BY <1>1 DEF Config
<1>7. ASSUME ~ (option = "--resource" /\ value = "/")
      PROVE  Config(name, argv, n + 1) =
               [before EXCEPT ![option] =
                  IF option \in {"--threads", "--queue", "--mode"} THEN atoi(value) ELSE value]
  BY <1>2, <1>3, <1>4, <1>5, <1>6, <1>7
<1>8. CASE option = "--resource" /\ value = "/"
  <2>1. Config(name, argv, n + 1) = before
    BY <1>3, <1>5, <1>6, <1>8
  <2>2. name = "client"
    BY <1>1, <1>2, <1>8, Options DEF Programs
  <2>3. Store(name, before, option, value) = before
    BY <1>8, <2>2 DEF Store, ClientStore
  <2> QED
    BY <1>1, <2>1, <2>3
<1>9. CASE ~ (option = "--resource" /\ value = "/")
  <2>1. Store(name, before, option, value) =
          [before EXCEPT ![option] =
             IF option \in {"--threads", "--queue", "--mode"} THEN atoi(value) ELSE value]
    <3>1. CASE name = "server"
      <4>1. option # "--mode"
        BY <1>1, <1>2, <3>1, Options
      <4> QED
        BY <3>1, <4>1 DEF Store, ServerStore
    <3>2. CASE name = "client"
      <4>1. option # "--threads" /\ option # "--queue"
        BY <1>1, <1>2, <3>2, Options
      <4>2. CASE option = "--mode"
        BY <3>2, <4>2 DEF Store, ClientStore
      <4>3. CASE option # "--mode"
        <5>1. ClientStore(before, option, value) = [before EXCEPT ![option] = value]
          BY <1>9, <4>3 DEF ClientStore
        <5> QED
          BY <3>2, <4>1, <4>3, <5>1 DEF Store
      <4> QED
        BY <4>2, <4>3
    <3>3. CASE name = "heartbeat_client"
      <4>1. option \notin {"--threads", "--queue", "--mode"}
        BY <1>1, <1>2, <3>3, Options
      <4> QED
        BY <3>3, <4>1 DEF Store, HeartbeatStore
    <3> QED
      BY <3>1, <3>2, <3>3 DEF Programs
  <2> QED
    BY <1>1, <1>7, <1>9, <2>1
<1> QED
  BY <1>8, <1>9

\* What is known after the i-th word.
ReadSoFar(name, argv, i) ==
  LET n == PairsOf(name, argv) IN
  IF i <= 2 * n
  THEN [result |-> 0, next |-> 2 * ((i + 1) \div 2) + 1,
        config |-> Config(name, argv, (i + 1) \div 2)]
  ELSE [result |-> IF argv[2 * n + 1] \in {"--help", "--version"} THEN 1 ELSE -1,
        next |-> 2 * n + 1, config |-> Config(name, argv, n)]

LEMMA OneTurn ==
  ASSUME NEW name \in Programs, NEW argv, Len(argv) \in Nat, NEW i \in 1 .. Len(argv)
  PROVE  Turn(name, argv, ReadSoFar(name, argv, i - 1), i) = ReadSoFar(name, argv, i)
<1>1. PICK n : n = PairsOf(name, argv)
  OBVIOUS
<1>2. /\ n \in Nat /\ 2 * n <= Len(argv)
      /\ \A k \in 1 .. n : Pair(name, argv, 2 * k - 1)
      /\ 2 * n + 2 <= Len(argv) => ~ Pair(name, argv, 2 * n + 1)
  BY <1>1, Pairs
<1>3. PICK before : before = ReadSoFar(name, argv, i - 1)
  OBVIOUS
<1>4. PICK D : D = DOMAIN Defaults(name)
  OBVIOUS
<1>5. "--help" \notin D /\ "--version" \notin D
  BY <1>4, Options
<1>6. CASE \E j \in 1 .. n : i = 2 * j - 1
  <2>1. PICK j \in 1 .. n : i = 2 * j - 1
    BY <1>6
  <2>2. /\ i - 1 <= 2 * n /\ (i - 1 + 1) \div 2 = j - 1 /\ i <= 2 * n /\ (i + 1) \div 2 = j
        /\ j - 1 \in Nat /\ i = 2 * (j - 1) + 1 /\ i + 1 = 2 * (j - 1) + 2 /\ j - 1 + 1 = j
        /\ i < Len(argv)
    BY <1>2, <2>1
  <2>3. before = [result |-> 0, next |-> i, config |-> Config(name, argv, j - 1)]
    BY <1>1, <1>3, <2>2 DEF ReadSoFar
  <2>4. Pair(name, argv, i)
    BY <1>2, <2>1
  <2>5. Store(name, Config(name, argv, j - 1), argv[i], argv[i + 1]) = Config(name, argv, j)
    BY <2>2, <2>4, StoreSets
  <2>6. /\ argv[i] \in D /\ Accepts(name, argv[i], argv[i + 1])
        /\ argv[i] \notin {"--help", "--version"}
    BY <1>4, <1>5, <2>4 DEF Pair
  <2>7. Turn(name, argv, before, i) =
          [before EXCEPT !.next = i + 2, !.config = Store(name, @, argv[i], argv[i + 1])]
    BY <1>4, <2>2, <2>3, <2>6 DEF Turn, NextWord
  <2>8. ReadSoFar(name, argv, i) = [result |-> 0, next |-> i + 2, config |-> Config(name, argv, j)]
    <3>1. 2 * ((i + 1) \div 2) + 1 = i + 2
      BY <2>1, <2>2
    <3> QED
      BY <1>1, <2>2, <3>1 DEF ReadSoFar
  <2>9. Turn(name, argv, before, i) =
          [result |-> 0, next |-> i + 2, config |-> Config(name, argv, j)]
    BY <2>3, <2>5, <2>7
  <2> QED
    BY <1>3, <2>8, <2>9
<1>7. CASE \E j \in 1 .. n : i = 2 * j
  <2>1. PICK j \in 1 .. n : i = 2 * j
    BY <1>7
  <2>2. i - 1 <= 2 * n /\ (i - 1 + 1) \div 2 = j /\ i <= 2 * n /\ (i + 1) \div 2 = j
    BY <1>2, <2>1
  <2>3. /\ before = ReadSoFar(name, argv, i)
        /\ before = [result |-> 0, next |-> 2 * j + 1, config |-> Config(name, argv, j)]
    BY <1>1, <1>3, <2>2 DEF ReadSoFar
  <2>4. i < before.next
    BY <2>1, <2>3
  <2>5. Turn(name, argv, before, i) = before
    BY <2>4 DEF Turn
  <2> QED
    BY <1>3, <2>3, <2>5
<1>8. CASE i = 2 * n + 1
  <2>1. i - 1 <= 2 * n /\ (i - 1 + 1) \div 2 = n /\ ~ (i <= 2 * n) /\ 2 * n + 1 = i
    BY <1>2, <1>8
  <2>2. before = [result |-> 0, next |-> i, config |-> Config(name, argv, n)]
    BY <1>1, <1>3, <2>1 DEF ReadSoFar
  <2>3. ReadSoFar(name, argv, i) =
          [before EXCEPT !.result = IF argv[i] \in {"--help", "--version"} THEN 1 ELSE -1]
    BY <1>1, <2>1, <2>2 DEF ReadSoFar
  <2>4. CASE argv[i] \in {"--help", "--version"}
    BY <1>3, <1>4, <1>5, <2>2, <2>3, <2>4 DEF Turn
  <2>5. CASE argv[i] \notin {"--help", "--version"}
    <3>1. ~ (argv[i] \in D /\ i < Len(argv) /\ Accepts(name, argv[i], argv[i + 1]))
      <4>1. SUFFICES ASSUME argv[i] \in D, i < Len(argv), Accepts(name, argv[i], argv[i + 1])
                     PROVE  FALSE
        OBVIOUS
      <4>2. Pair(name, argv, i)
        BY <1>4, <4>1 DEF Pair
      <4>3. 2 * n + 2 <= Len(argv)
        BY <1>2, <1>8, <4>1
      <4> QED
        BY <1>2, <2>1, <4>2, <4>3
    <3>2. Turn(name, argv, before, i) = [before EXCEPT !.result = -1]
      BY <1>4, <2>2, <2>5, <3>1 DEF Turn
    <3> QED
      BY <1>3, <2>3, <2>5, <3>2
  <2> QED
    BY <2>4, <2>5
<1>9. CASE i > 2 * n + 1
  <2>1. ~ (i - 1 <= 2 * n) /\ ~ (i <= 2 * n)
    BY <1>2, <1>9
  <2>2. before = ReadSoFar(name, argv, i) /\ before.result # 0
    BY <1>1, <1>3, <2>1 DEF ReadSoFar
  <2>3. Turn(name, argv, before, i) = before
    BY <2>2 DEF Turn
  <2> QED
    BY <1>3, <2>2, <2>3
<1>10. \/ \E j \in 1 .. n : i = 2 * j - 1
       \/ \E j \in 1 .. n : i = 2 * j
       \/ i = 2 * n + 1 \/ i > 2 * n + 1
  <2>1. PICK j : j = (i + 1) \div 2
    OBVIOUS
  <2>2. j \in Nat /\ (i = 2 * j - 1 \/ i = 2 * j) /\ j >= 1
    BY <2>1
  <2>3. i <= 2 * n => j \in 1 .. n
    BY <1>2, <2>2
  <2>4. i <= 2 * n \/ i = 2 * n + 1 \/ i > 2 * n + 1
    BY <1>2
  <2> QED
    BY <2>2, <2>3, <2>4
<1> QED
  BY <1>6, <1>7, <1>8, <1>9, <1>10

LEMMA LoopRuns ==
  ASSUME NEW name \in Programs, NEW argv, Len(argv) \in Nat
  PROVE  parse_arguments(name, argv) = ReadSoFar(name, argv, Len(argv))
<1> DEFINE n == Len(argv)
           first == [result |-> 0, next |-> 1, config |-> Defaults(name)]
           Ok(f) == f = [i \in 0 .. n |->
                          IF i = 0 THEN first ELSE Turn(name, argv, f[i - 1], i)]
           after == CHOOSE f : Ok(f)
           want == [i \in 0 .. n |-> ReadSoFar(name, argv, i)]
<1>1. want[0] = first
  <2>1. PairsOf(name, argv) \in Nat
    BY Pairs
  <2>2. 0 <= 2 * PairsOf(name, argv) /\ (0 + 1) \div 2 = 0
    BY <2>1
  <2>3. ReadSoFar(name, argv, 0) = first
    BY <2>2, NothingRead DEF ReadSoFar
  <2> QED
    BY <2>3
<1>2. ASSUME NEW i \in 1 .. n PROVE want[i] = Turn(name, argv, want[i - 1], i)
  <2>1. i - 1 \in 0 .. n /\ i \in 0 .. n
    OBVIOUS
  <2>2. want[i] = ReadSoFar(name, argv, i) /\ want[i - 1] = ReadSoFar(name, argv, i - 1)
    BY <2>1
  <2> QED
    BY <2>2, OneTurn
<1>3. Ok(want)
  <2>1. want = [i \in 0 .. n |-> want[i]]
    OBVIOUS
  <2> HIDE DEF want, first
  <2>2. \A i \in 0 .. n : want[i] = IF i = 0 THEN first ELSE Turn(name, argv, want[i - 1], i)
    BY <1>1, <1>2
  <2> HIDE DEF n
  <2> QED
    BY <2>1, <2>2
<1>4. Ok(after)
  <2> HIDE DEF Ok, want
  <2> QED
    BY <1>3
<1>5. \A i \in 0 .. n : after[i] = want[i]
  <2> HIDE DEF after, want, first, n
  <2>0. n \in Nat
    BY DEF n
  <2>1. \A f : Ok(f) => f[0] = first /\ \A i \in 1 .. n : f[i] = Turn(name, argv, f[i - 1], i)
    BY <2>0
  <2> HIDE DEF Ok
  <2> DEFINE Bad == {i \in 0 .. n : after[i] # want[i]}
  <2> SUFFICES ASSUME Bad # {} PROVE FALSE
    OBVIOUS
  <2>2. PICK k : k \in Bad /\ \A m \in Bad : k <= m
    <3>1. Bad \subseteq Nat
      OBVIOUS
    <3> HIDE DEF Bad
    <3> QED
      BY <3>1, LeastNumber
  <2>3. k # 0
    BY <1>3, <1>4, <2>1, <2>2
  <2>4. k - 1 \in 0 .. n /\ k \in 1 .. n /\ k - 1 \notin Bad
    BY <2>0, <2>2, <2>3
  <2>5. after[k - 1] = want[k - 1]
    BY <2>4
  <2> QED
    BY <1>3, <1>4, <2>1, <2>2, <2>4, <2>5
<1>6. parse_arguments(name, argv) = after[n]
  BY DEF parse_arguments
<1>7. after[n] = want[n] /\ n \in 0 .. n
  <2> HIDE DEF after, want
  <2> QED
    BY <1>5
<1> QED
  BY <1>6, <1>7

\* parse_arguments of the three programs: a line of any length, of any words,
\* is read pair by pair up to the first word that begins no pair, and each
\* setting is the one of its last pair that changes it.
THEOREM LinesAreRead ==
  ASSUME NEW name \in Programs, NEW S, NEW argv \in Seq(S)
  PROVE  LineRead(name, argv)
<1>1. PICK n, len : n = PairsOf(name, argv) /\ len = Len(argv)
  OBVIOUS
<1>2. n \in Nat /\ len \in Nat /\ 2 * n <= len
  <2>1. Len(argv) \in Nat
    OBVIOUS
  <2> QED
    BY <1>1, <2>1, Pairs
<1>3. parse_arguments(name, argv) = ReadSoFar(name, argv, len)
  BY <1>1, <1>2, LoopRuns
<1>4. /\ ReadSoFar(name, argv, len).result =
           IF len = 2 * n THEN 0
           ELSE IF argv[2 * n + 1] \in {"--help", "--version"} THEN 1 ELSE -1
      /\ ReadSoFar(name, argv, len).config = Config(name, argv, n)
  <2>1. CASE len = 2 * n
    <3>1. (len + 1) \div 2 = n /\ len <= 2 * n
      BY <1>2, <2>1
    <3> QED
      BY <1>1, <2>1, <3>1 DEF ReadSoFar
  <2>2. CASE len # 2 * n
    <3>1. ~ (len <= 2 * n)
      BY <1>2, <2>2
    <3> QED
      BY <1>1, <2>2, <3>1 DEF ReadSoFar
  <2> QED
    BY <2>1, <2>2
<1> QED
  BY <1>1, <1>3, <1>4 DEF LineRead, Config

\* The lines of the run.
THEOREM LastPairWinsHolds == Spec => []LastPairWins
<1>1. ASSUME NEW name \in Programs, NEW argv \in Lines PROVE LineRead(name, argv)
  <2>1. PICK n \in 0 .. 4 : argv \in [1 .. n -> Words]
    BY DEF Lines
  <2>2. argv \in Seq(Words)
    BY <2>1
  <2> QED
    BY <2>2, LinesAreRead
<1>2. LastPairWins
  BY <1>1 DEF LastPairWins
<1> QED
  BY <1>2, PTL
===============================================================================
