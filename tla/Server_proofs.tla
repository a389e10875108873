----------------------------- MODULE Server_proofs -----------------------------
(***************************************************************************)
(* What holds of the server's main loop for every set of connections and   *)
(* every limit on descriptors.                                             *)
(***************************************************************************)
EXTENDS Server, FiniteSetTheorems, TLAPS

\* Before the loop the tables are empty.
Early ==
  pc \in {"boot", "setup", "start"} =>
    clients = {} /\ http_clients = {} /\ (pc = "start" => master = Listeners)

IInv == TypeOK /\ TablesAgree /\ Early /\ SnapshotFresh /\ NobodySkipped /\ CleanExit

\* The part of the invariant about descriptors and connections, without pc.
Kernel ==
  /\ clients \subseteq ClientFds /\ http_clients \subseteq ClientFds
  /\ sock \in [ClientFds -> Conns \cup {NoConn}]
  /\ conn \in [Conns -> {"new", "pending", "open", "gone"}]
  /\ data \in [Conns -> {"none", "part", "whole"}]
  /\ left \subseteq Conns /\ full \subseteq Conns
  /\ request \in [Conns -> {"none", "bad", "resource"}]
  /\ clients      = {fd \in ClientFds : sock[fd] \in Conns \ Http}
  /\ http_clients = {fd \in ClientFds : sock[fd] \in Http}
  /\ \A c \in Conns : conn[c] = "open" <=> \E fd \in ClientFds : sock[fd] = c
  /\ \A fd, fe \in ClientFds : sock[fd] = sock[fe] /\ sock[fd] # NoConn => fd = fe

\* The part about the pass.
Pass ==
  /\ read_fds \subseteq Listeners \cup ClientFds
  /\ write_fds \subseteq Listeners \cup ClientFds
  /\ except_fds \subseteq Listeners \cup ClientFds
  /\ select_ret \in Nat
  /\ seen \in [ClientFds -> Conns \cup {NoConn}]

MasterAgrees == master = Listeners \cup clients \cup http_clients

Fresh == \A fd \in Remaining \cap ClientFds : sock[fd] = seen[fd] /\ sock[fd] # NoConn

Enough == select_ret >= Cardinality(Remaining)

Control ==
  /\ pc \in {"boot", "setup", "start", "select", "pass", "cleanup", "destroy",
             "finished", "failed", "killed"}
  /\ stop \in {0, 1} /\ ret_val \in {-1, 0}

Parts ==
  /\ Control /\ Kernel /\ Pass /\ Early /\ CleanExit
  /\ master \subseteq Listeners \cup ClientFds /\ max_fd \in 0 .. FdLimit - 1
  /\ lock_file \in BOOLEAN
  /\ Looping => MasterAgrees
  /\ pc = "pass" => Fresh /\ Enough

\* The invariant is the conjunction of these parts.
LEMMA PartsOfIInv == (IInv <=> Parts) /\ (IInv' <=> Parts')
BY DEF Parts, IInv, TypeOK, TablesAgree, SnapshotFresh, NobodySkipped, Control, Kernel, Pass,
       MasterAgrees, Fresh, Enough

\* Descriptors are finitely many numbers, and no client has a listener's.
LEMMA Descriptors ==
  /\ Listeners \subseteq 0 .. FdLimit - 1 /\ ClientFds \subseteq 0 .. FdLimit - 1
  /\ Listeners \cap ClientFds = {}
  /\ \A S \in SUBSET (Listeners \cup ClientFds) : IsFiniteSet(S) /\ Cardinality(S) \in Nat
<1>1. Listeners \subseteq 0 .. FdLimit - 1 /\ ClientFds \subseteq 0 .. FdLimit - 1
  BY ServerAssumption DEF ClientFds
<1>2. ASSUME NEW fd \in Listeners \cap ClientFds PROVE FALSE
  <2>1. fd > fd /\ fd \in Int
    BY ServerAssumption DEF ClientFds
  <2> QED
    BY <2>1
<1>3. IsFiniteSet(0 .. FdLimit - 1)
  BY FS_Interval, ServerAssumption
<1>4. ASSUME NEW S \in SUBSET (Listeners \cup ClientFds)
      PROVE  IsFiniteSet(S) /\ Cardinality(S) \in Nat
  BY <1>1, <1>3, FS_Subset, FS_CardinalityType
<1> QED
  BY <1>1, <1>2, <1>4

\* A union has at most as many elements as its parts together.
LEMMA UnionBound ==
  ASSUME NEW S, NEW T, IsFiniteSet(S), IsFiniteSet(T)
  PROVE  /\ IsFiniteSet(S \cup T)
         /\ Cardinality(S \cup T) <= Cardinality(S) + Cardinality(T)
<1>1. IsFiniteSet(S \cap T)
  BY FS_Subset
<1>2. Cardinality(S) \in Nat /\ Cardinality(T) \in Nat /\ Cardinality(S \cap T) \in Nat
  BY <1>1, FS_CardinalityType
<1>3. /\ IsFiniteSet(S \cup T)
      /\ Cardinality(S \cup T) = Cardinality(S) + Cardinality(T) - Cardinality(S \cap T)
  BY FS_Union
<1> QED
  BY <1>2, <1>3

\* The largest of the three listening sockets.
LEMMA MaxListener ==
  (CHOOSE l \in Listeners : \A k \in Listeners : k <= l) \in 0 .. FdLimit - 1
<1>1. sockfd_tcp \in Int /\ sockfd_udp \in Int /\ sockfd_tcp_http \in Int
  BY ServerAssumption DEF Listeners
<1>2. \E l \in Listeners : \A k \in Listeners : k <= l
  BY <1>1 DEF Listeners
<1>3. (CHOOSE l \in Listeners : \A k \in Listeners : k <= l) \in Listeners
  BY <1>2
<1> QED
  BY <1>3, Descriptors

\* A visit takes one descriptor out of the pass and one off the countdown.
LEMMA VisitKeeps ==
  ASSUME Pass, Enough, NEW fd, Visit(fd)
  PROVE  /\ pc = "pass" /\ fd \in Remaining /\ fd \in Listeners \cup ClientFds
         /\ Pass' /\ Enough' /\ Remaining' = Remaining \ {fd}
         /\ \A g \in ClientFds : g # fd => seen'[g] = seen[g]
<1>1. fd \in Remaining /\ pc = "pass" /\ select_ret > 0 /\ select_ret' = select_ret - 1
  BY DEF Visit
<1>2. Remaining \subseteq Listeners \cup ClientFds
  BY DEF Remaining, Pass
<1>3. Remaining' = Remaining \ {fd}
  BY DEF Visit, Remaining
<1>4. seen' \in [ClientFds -> Conns \cup {NoConn}]
      /\ \A g \in ClientFds : g # fd => seen'[g] = seen[g]
  BY DEF Visit, Pass
<1>5. Pass'
  BY <1>1, <1>4 DEF Visit, Pass
<1>6. IsFiniteSet(Remaining) /\ Cardinality(Remaining) \in Nat
  BY <1>2, Descriptors
<1>7. Cardinality(Remaining \ {fd}) = Cardinality(Remaining) - 1
  BY <1>1, <1>6, FS_RemoveElement
<1>8. Enough'
  BY <1>1, <1>3, <1>6, <1>7 DEF Enough, Pass
<1> QED
  BY <1>1, <1>2, <1>3, <1>4, <1>5, <1>8

\* Freeing a client takes its descriptor out of everything at once.
LEMMA FreeClientKeeps ==
  ASSUME Kernel, MasterAgrees, NEW fd \in ClientFds, sock[fd] # NoConn, FreeClient(fd)
  PROVE  Kernel' /\ MasterAgrees' /\ \A g \in ClientFds : g # fd => sock'[g] = sock[g]
<1> USE ServerAssumption
<1>1. /\ sock' = [sock EXCEPT ![fd] = NoConn]
      /\ clients' = clients \ {fd} /\ http_clients' = http_clients \ {fd}
      /\ master' = master \ {fd}
      /\ conn' = [c \in Conns |-> IF c = sock[fd] THEN "gone" ELSE conn[c]]
      /\ data' = [c \in Conns |-> IF c = sock[fd] THEN "none" ELSE data[c]]
      /\ request' = [c \in Conns |-> IF c = sock[fd] THEN "none" ELSE request[c]]
      /\ left' = left \ {sock[fd]} /\ full' = full \ {sock[fd]}
  BY DEF FreeClient, Disconnect
<1>2. sock' \in [ClientFds -> Conns \cup {NoConn}] /\ sock'[fd] = NoConn
      /\ \A g \in ClientFds : g # fd => sock'[g] = sock[g]
  BY <1>1 DEF Kernel
<1>3. clients' = {g \in ClientFds : sock'[g] \in Conns \ Http}
      /\ http_clients' = {g \in ClientFds : sock'[g] \in Http}
  BY <1>1, <1>2 DEF Kernel
<1>4. ASSUME NEW c \in Conns
      PROVE  conn'[c] = "open" <=> \E g \in ClientFds : sock'[g] = c
  BY <1>1, <1>2 DEF Kernel
<1>5. \A g, h \in ClientFds : sock'[g] = sock'[h] /\ sock'[g] # NoConn => g = h
  BY <1>2 DEF Kernel
<1>6. conn' \in [Conns -> {"new", "pending", "open", "gone"}]
      /\ data' \in [Conns -> {"none", "part", "whole"}]
      /\ request' \in [Conns -> {"none", "bad", "resource"}]
      /\ left' \subseteq Conns /\ full' \subseteq Conns
      /\ clients' \subseteq ClientFds /\ http_clients' \subseteq ClientFds
  BY <1>1 DEF Kernel
<1>7. MasterAgrees'
  BY <1>1, Descriptors DEF MasterAgrees
<1> QED
  BY <1>2, <1>3, <1>4, <1>5, <1>6, <1>7 DEF Kernel

\* Adding one puts it where it belongs.
LEMMA AddClientKeeps ==
  ASSUME Kernel, MasterAgrees, max_fd \in 0 .. FdLimit - 1,
         NEW fd \in Free, NEW c \in Conns, conn[c] = "pending", AddClient(fd, c)
  PROVE  /\ Kernel' /\ MasterAgrees' /\ max_fd' \in 0 .. FdLimit - 1
         /\ \A g \in ClientFds : g # fd => sock'[g] = sock[g]
<1> USE ServerAssumption
<1>0. fd \in ClientFds /\ sock[fd] = NoConn
  BY DEF Free
<1>1. /\ sock' = [sock EXCEPT ![fd] = c] /\ conn' = [conn EXCEPT ![c] = "open"]
      /\ master' = master \cup {fd} /\ UNCHANGED <<data, left, full, request>>
      /\ clients' = IF c \in Http THEN clients ELSE clients \cup {fd}
      /\ http_clients' = IF c \in Http THEN http_clients \cup {fd} ELSE http_clients
      /\ max_fd' = IF fd > max_fd THEN fd ELSE max_fd
  BY DEF AddClient
<1>2. sock' \in [ClientFds -> Conns \cup {NoConn}] /\ sock'[fd] = c
      /\ \A g \in ClientFds : g # fd => sock'[g] = sock[g]
  BY <1>0, <1>1 DEF Kernel
<1>3. clients' = {g \in ClientFds : sock'[g] \in Conns \ Http}
      /\ http_clients' = {g \in ClientFds : sock'[g] \in Http}
  BY <1>0, <1>1, <1>2 DEF Kernel
<1>4. \A g \in ClientFds : sock[g] # c
  BY DEF Kernel
<1>5. ASSUME NEW b \in Conns
      PROVE  conn'[b] = "open" <=> \E g \in ClientFds : sock'[g] = b
  <2>1. CASE b = c
    BY <2>1, <1>0, <1>1, <1>2 DEF Kernel
  <2>2. CASE b # c
    <3>1. conn'[b] = conn[b]
      BY <2>2, <1>1 DEF Kernel
    <3>2. \A g \in ClientFds : sock'[g] = b <=> sock[g] = b
      BY <2>2, <1>0, <1>2
    <3> QED
      BY <3>1, <3>2 DEF Kernel
  <2> QED
    BY <2>1, <2>2
<1>6. \A g, h \in ClientFds : sock'[g] = sock'[h] /\ sock'[g] # NoConn => g = h
  BY <1>0, <1>2, <1>4 DEF Kernel
<1>7. conn' \in [Conns -> {"new", "pending", "open", "gone"}]
      /\ data' \in [Conns -> {"none", "part", "whole"}]
      /\ request' \in [Conns -> {"none", "bad", "resource"}]
      /\ left' \subseteq Conns /\ full' \subseteq Conns
      /\ clients' \subseteq ClientFds /\ http_clients' \subseteq ClientFds
  BY <1>0, <1>1 DEF Kernel
<1>8. max_fd' \in 0 .. FdLimit - 1
  BY <1>0, <1>1, Descriptors
<1>9. MasterAgrees'
  BY <1>1 DEF MasterAgrees
<1> QED
  BY <1>2, <1>3, <1>5, <1>6, <1>7, <1>8, <1>9 DEF Kernel

-------------------------------------------------------------------------------
(* The invariant, action by action. *)

LEMMA IInvInit == Init => IInv
<1> SUFFICES ASSUME Init PROVE IInv
  OBVIOUS
<1> USE ServerAssumption DEF Init
<1>1. Kernel
  BY DEF Kernel
<1>2. Pass /\ Control
  BY DEF Pass, Control
<1>3. 0 \in 0 .. FdLimit - 1
  BY DEF Listeners
<1> QED
  BY <1>1, <1>2, <1>3, PartsOfIInv DEF Parts, Early, CleanExit, Looping

\* Clients, the network and the user change nothing the loop relies on.
LEMMA Environment ==
  ASSUME IInv, (\E c \in Conns : Client(c)) \/ Sigint
  PROVE  IInv'
<1>0. /\ Control /\ Kernel /\ Pass /\ Early /\ CleanExit
      /\ master \subseteq Listeners \cup ClientFds /\ max_fd \in 0 .. FdLimit - 1
      /\ Looping => MasterAgrees
      /\ pc = "pass" => Fresh /\ Enough
      /\ lock_file \in BOOLEAN
  BY PartsOfIInv DEF Parts
<1>1. UNCHANGED <<master, max_fd, read_fds, write_fds, except_fds, seen, select_ret,
                  clients, http_clients, sock, lock_file>>
  BY DEF Client, Connect, Arrive, Leave, StopReading, ReadOn, Sigint, tables, ready
<1>2. Kernel' /\ \A c \in Conns : conn'[c] = "open" => conn[c] = "open"
  <2>1. ASSUME NEW c \in Conns, Connect(c)
        PROVE  Kernel' /\ \A b \in Conns : conn'[b] = "open" => conn[b] = "open"
    <3>1. /\ conn' = [conn EXCEPT ![c] = "pending"] /\ conn[c] # "open"
          /\ UNCHANGED <<data, left, full, request>>
      BY <2>1 DEF Connect
    <3>2. /\ conn' \in [Conns -> {"new", "pending", "open", "gone"}]
          /\ \A b \in Conns : conn'[b] = "open" <=> conn[b] = "open"
      BY <1>0, <3>1 DEF Kernel
    <3> QED
      BY <1>0, <1>1, <3>1, <3>2 DEF Kernel
  <2>2. ASSUME NEW c \in Conns, Arrive(c)
        PROVE  Kernel' /\ \A b \in Conns : conn'[b] = "open" => conn[b] = "open"
    <3>1. UNCHANGED <<conn, left, full, request>> /\ data' \in [Conns -> {"none", "part", "whole"}]
      BY <1>0, <2>2 DEF Arrive, Kernel
    <3> QED
      BY <1>0, <1>1, <3>1 DEF Kernel
  <2>3. ASSUME NEW c \in Conns, Leave(c) \/ StopReading(c) \/ ReadOn(c)
        PROVE  Kernel' /\ \A b \in Conns : conn'[b] = "open" => conn[b] = "open"
    <3>1. UNCHANGED <<conn, data, request>> /\ left' \subseteq Conns /\ full' \subseteq Conns
      BY <1>0, <2>3 DEF Leave, StopReading, ReadOn, Kernel
    <3> QED
      BY <1>0, <1>1, <3>1 DEF Kernel
  <2>4. CASE Sigint
    BY <1>0, <2>4 DEF Sigint, tables, Kernel
  <2> QED
    BY <2>1, <2>2, <2>3, <2>4 DEF Client
<1>3. Control' /\ (pc' = pc \/ (pc = "boot" /\ pc' = "killed") \/ (pc = "select" /\ pc' = "cleanup"))
  BY <1>0 DEF Control, Client, Connect, Arrive, Leave, StopReading, ReadOn, Sigint, process
<1>4. Pass' /\ (Fresh => Fresh') /\ (Enough => Enough') /\ (MasterAgrees => MasterAgrees')
  BY <1>0, <1>1 DEF Pass, Fresh, Enough, MasterAgrees, Remaining
<1>5. Early' /\ CleanExit' /\ lock_file' \in BOOLEAN
  BY <1>0, <1>1, <1>2, <1>3 DEF Early, CleanExit
<1>6. (Looping => MasterAgrees)' /\ (pc = "pass" => Fresh /\ Enough)'
  BY <1>0, <1>3, <1>4 DEF Looping
<1> QED
  BY <1>0, <1>1, <1>2, <1>3, <1>4, <1>5, <1>6, PartsOfIInv DEF Parts

\* Up to the loop, and from one pass to the next.
LEMMA Outside ==
  ASSUME IInv, setup_signals \/ Setup \/ StartLoop \/ PassEnds \/ Finish
  PROVE  IInv'
<1>0. /\ Control /\ Kernel /\ Pass /\ Early /\ CleanExit
      /\ master \subseteq Listeners \cup ClientFds /\ max_fd \in 0 .. FdLimit - 1
      /\ Looping => MasterAgrees
      /\ pc = "pass" => Fresh /\ Enough
      /\ lock_file \in BOOLEAN
  BY PartsOfIInv DEF Parts
<1>1. UNCHANGED <<read_fds, write_fds, except_fds, seen, clients, http_clients,
                  sock, conn, data, left, full, request, lock_file>>
  BY DEF setup_signals, Setup, StartLoop, PassEnds, Finish, tables, ready
<1>2. Kernel' /\ Pass' /\ Control'
  BY <1>0, <1>1 DEF Kernel, Pass, Control, setup_signals, Setup, StartLoop, PassEnds, Finish
<1>3. max_fd' \in 0 .. FdLimit - 1 /\ master' \subseteq Listeners \cup ClientFds
  BY <1>0, MaxListener DEF setup_signals, Setup, StartLoop, PassEnds, Finish, tables
<1>4. Early' /\ pc' # "pass"
  BY <1>0, <1>1 DEF Early, setup_signals, Setup, StartLoop, PassEnds, Finish, tables
<1>5. CleanExit'
  <2>1. CASE Setup
    <3>1. \A fd \in ClientFds : sock[fd] \notin Conns
      BY <1>0, <2>1, ServerAssumption DEF Setup, Early, Kernel
    <3>2. \A c \in Conns : conn[c] # "open"
      BY <1>0, <3>1 DEF Kernel
    <3> QED
      BY <1>1, <3>2 DEF CleanExit
  <2>2. CASE setup_signals \/ StartLoop \/ PassEnds \/ Finish
    BY <1>0, <1>1, <2>2 DEF CleanExit, setup_signals, StartLoop, PassEnds, Finish
  <2> QED
    BY <2>1, <2>2
<1>6. Looping' => MasterAgrees'
  BY <1>0, <1>1 DEF Looping, MasterAgrees, Early, setup_signals, Setup, StartLoop, PassEnds,
                    Finish, tables
<1> QED
  BY <1>0, <1>1, <1>2, <1>3, <1>4, <1>5, <1>6, PartsOfIInv DEF Parts

LEMMA SelectKeeps ==
  ASSUME IInv, Select
  PROVE  IInv'
<1>0. /\ Control /\ Kernel /\ Pass /\ MasterAgrees /\ pc = "select"
      /\ master \subseteq Listeners \cup ClientFds /\ max_fd \in 0 .. FdLimit - 1
      /\ lock_file \in BOOLEAN
  BY PartsOfIInv DEF Parts, Select, Looping
<1>1. /\ UNCHANGED <<stop, ret_val, master, max_fd, clients, http_clients, sock, conn,
                     data, left, full, request, lock_file>>
      /\ pc' = "pass"
      /\ select_ret' = Cardinality(read_fds') + Cardinality(write_fds') + Cardinality(except_fds')
      /\ seen' = [fd \in ClientFds |-> IF fd \in read_fds' \cup write_fds' \cup except_fds'
                                       THEN sock[fd] ELSE NoConn]
  BY DEF Select, tables
<1>2. /\ read_fds' \subseteq master /\ except_fds' \subseteq master
      /\ write_fds' \subseteq master \cup {sockfd_udp}
  BY DEF Select
<1>3. Remaining' \subseteq master /\ master \subseteq Listeners \cup ClientFds
  BY <1>0, <1>2 DEF MasterAgrees, Listeners, Remaining
<1>4. /\ IsFiniteSet(read_fds') /\ IsFiniteSet(write_fds') /\ IsFiniteSet(except_fds')
      /\ Cardinality(read_fds') \in Nat /\ Cardinality(write_fds') \in Nat
      /\ Cardinality(except_fds') \in Nat
  BY <1>3, Descriptors DEF Remaining
<1>5. Pass'
  BY <1>0, <1>1, <1>3, <1>4 DEF Pass, Remaining, Kernel
<1>6. Enough'
  <2>1. /\ IsFiniteSet(read_fds' \cup write_fds')
        /\ Cardinality(read_fds' \cup write_fds') <= Cardinality(read_fds') + Cardinality(write_fds')
    BY <1>4, UnionBound
  <2>2. Cardinality((read_fds' \cup write_fds') \cup except_fds')
          <= Cardinality(read_fds' \cup write_fds') + Cardinality(except_fds')
    BY <1>4, <2>1, UnionBound
  <2>3. /\ Remaining' \in SUBSET (Listeners \cup ClientFds)
        /\ read_fds' \cup write_fds' \in SUBSET (Listeners \cup ClientFds)
        /\ Remaining' = (read_fds' \cup write_fds') \cup except_fds'
    BY <1>3 DEF Remaining
  <2>4. Cardinality(Remaining') \in Nat /\ Cardinality(read_fds' \cup write_fds') \in Nat
    BY <2>3, Descriptors
  <2> QED
    BY <1>1, <1>4, <2>1, <2>2, <2>3, <2>4 DEF Enough
<1>7. Fresh'
  <2> SUFFICES ASSUME NEW fd \in Remaining' \cap ClientFds
               PROVE  sock'[fd] = seen'[fd] /\ sock'[fd] # NoConn
    BY DEF Fresh
  <2>1. fd \in clients \cup http_clients
    BY <1>0, <1>3, Descriptors DEF MasterAgrees
  <2>2. sock[fd] # NoConn
    BY <2>1, ServerAssumption, <1>0 DEF Kernel
  <2> QED
    BY <1>1, <2>2 DEF Remaining
<1>8. Kernel' /\ Control' /\ MasterAgrees' /\ Early' /\ CleanExit'
  BY <1>0, <1>1 DEF Kernel, Control, MasterAgrees, Early, CleanExit
<1> QED
  BY <1>0, <1>1, <1>5, <1>6, <1>7, <1>8, PartsOfIInv DEF Parts

\* A visit that ends in Break, Continue or SIGPIPE and keeps tables and
\* descriptors in step keeps the rest as well.
LEMMA VisitEnds ==
  ASSUME IInv, NEW fd, Visit(fd),
         Break \/ Continue \/ (pc' = "killed" /\ UNCHANGED <<stop, ret_val>>),
         Kernel', MasterAgrees', max_fd' \in 0 .. FdLimit - 1, lock_file' \in BOOLEAN,
         \A g \in Remaining' \cap ClientFds : sock'[g] = sock[g]
  PROVE  IInv'
<1>1. /\ Control /\ Pass /\ Fresh /\ Enough /\ pc = "pass"
  BY PartsOfIInv DEF Parts, Visit
<1>2. /\ Pass' /\ Enough' /\ Remaining' = Remaining \ {fd}
      /\ \A g \in ClientFds : g # fd => seen'[g] = seen[g]
  BY <1>1, VisitKeeps
<1>3. Fresh'
  BY <1>1, <1>2 DEF Fresh
<1>4. Control' /\ pc' \in {"pass", "cleanup", "killed"}
  BY <1>1 DEF Control, Break, Continue, process
<1>5. Early' /\ CleanExit'
  BY <1>4 DEF Early, CleanExit
<1>6. master' \subseteq Listeners \cup ClientFds
  BY DEF MasterAgrees, Kernel
<1> QED
  BY <1>2, <1>3, <1>4, <1>5, <1>6, PartsOfIInv DEF Parts

LEMMA AcceptKeeps ==
  ASSUME IInv, NEW l, Accept(l)
  PROVE  IInv'
<1>0. /\ Kernel /\ MasterAgrees /\ Fresh /\ Pass /\ Enough
      /\ max_fd \in 0 .. FdLimit - 1 /\ pc = "pass" /\ Visit(l)
      /\ lock_file' \in BOOLEAN
  BY PartsOfIInv DEF Parts, Accept, Visit, Looping, tables
<1>1. Remaining' = Remaining \ {l}
  BY <1>0, VisitKeeps
<1>2. PICK c \in Pending(l) :
     \/ UNCHANGED <<tables, max_fd>> /\ Break
     \/ \E fd \in Free :
          \/ AddClient(fd, c) /\ Continue
          \/ /\ Disconnect({c})
             /\ max_fd' = IF fd > max_fd THEN fd ELSE max_fd
             /\ UNCHANGED <<master, clients, http_clients, sock>>
             /\ Break
  BY DEF Accept
<1>3. c \in Conns /\ conn[c] = "pending"
  BY DEF Pending
<1>4. CASE UNCHANGED <<tables, max_fd>> /\ Break
  <2>1. Kernel' /\ MasterAgrees' /\ max_fd' = max_fd /\ sock' = sock
    BY <1>0, <1>4 DEF tables, Kernel, MasterAgrees
  <2> QED
    BY <1>0, <1>4, <2>1, VisitEnds
<1>5. ASSUME NEW fd \in Free, AddClient(fd, c), Continue
      PROVE  IInv'
  <2>1. /\ Kernel' /\ MasterAgrees' /\ max_fd' \in 0 .. FdLimit - 1
        /\ \A g \in ClientFds : g # fd => sock'[g] = sock[g]
    BY <1>0, <1>3, <1>5, AddClientKeeps
  <2>2. fd \notin Remaining
    BY <1>0 DEF Fresh, Free
  <2>3. \A g \in Remaining' \cap ClientFds : sock'[g] = sock[g]
    BY <1>1, <2>1, <2>2
  <2> QED
    BY <1>0, <1>5, <2>1, <2>3, VisitEnds
<1>6. ASSUME NEW fd \in Free, Disconnect({c}), max_fd' = IF fd > max_fd THEN fd ELSE max_fd,
             UNCHANGED <<master, clients, http_clients, sock>>, Break
      PROVE  IInv'
  <2>1. \A g \in ClientFds : sock[g] # c
    BY <1>0, <1>3 DEF Kernel
  <2>2. /\ conn' = [b \in Conns |-> IF b = c THEN "gone" ELSE conn[b]]
        /\ data' = [b \in Conns |-> IF b = c THEN "none" ELSE data[b]]
        /\ request' = [b \in Conns |-> IF b = c THEN "none" ELSE request[b]]
        /\ left' = left \ {c} /\ full' = full \ {c}
    BY <1>6 DEF Disconnect
  <2>3. \A b \in Conns : conn'[b] = "open" <=> \E g \in ClientFds : sock'[g] = b
    BY <1>0, <1>3, <1>6, <2>1, <2>2 DEF Kernel
  <2>4. /\ conn' \in [Conns -> {"new", "pending", "open", "gone"}]
        /\ data' \in [Conns -> {"none", "part", "whole"}]
        /\ request' \in [Conns -> {"none", "bad", "resource"}]
        /\ left' \subseteq Conns /\ full' \subseteq Conns
    BY <1>0, <2>2 DEF Kernel
  <2>5. Kernel' /\ MasterAgrees'
    BY <1>0, <1>6, <2>3, <2>4 DEF Kernel, MasterAgrees
  <2>6. max_fd' \in 0 .. FdLimit - 1
    BY <1>0, <1>6, Descriptors DEF Free
  <2> QED
    BY <1>0, <1>6, <2>5, <2>6, VisitEnds
<1> QED
  BY <1>2, <1>4, <1>5, <1>6

\* The handler calls for a client, and what the loop makes of their results.
LEMMA ClientCallKeeps ==
  ASSUME IInv, NEW fd \in ClientFds, Visit(fd), UNCHANGED max_fd, lock_file' \in BOOLEAN,
         NEW outcome \in {"refused", "null", "success", "error", "closed"},
         NEW waiting \in {"none", "part", "whole"},
         NEW kept \in {"none", "bad", "resource"},
         AfterClientCall(fd, outcome, waiting, kept)
  PROVE  IInv'
<1>0. /\ Kernel /\ MasterAgrees /\ Fresh /\ Pass /\ Enough
      /\ max_fd' \in 0 .. FdLimit - 1
  BY PartsOfIInv DEF Parts, Visit, Looping
<1>1. Remaining' = Remaining \ {fd} /\ fd \in Remaining
  BY <1>0, VisitKeeps
<1>2. Break \/ Continue
  BY DEF AfterClientCall
<1>3. CASE FreeClient(fd)
  <2>1. sock[fd] # NoConn
    BY <1>0, <1>1 DEF Fresh
  <2>2. Kernel' /\ MasterAgrees' /\ \A g \in ClientFds : g # fd => sock'[g] = sock[g]
    BY <1>0, <1>3, <2>1, FreeClientKeeps
  <2>3. \A g \in Remaining' \cap ClientFds : sock'[g] = sock[g]
    BY <1>1, <2>2
  <2> QED
    BY <1>0, <1>2, <2>2, <2>3, VisitEnds
<1>4. CASE /\ data' = [data EXCEPT ![sock[fd]] = waiting]
           /\ request' = [request EXCEPT ![sock[fd]] = kept]
           /\ UNCHANGED <<master, clients, http_clients, sock, conn, left, full>>
  <2>1. data' \in [Conns -> {"none", "part", "whole"}]
        /\ request' \in [Conns -> {"none", "bad", "resource"}]
    BY <1>0, <1>4 DEF Kernel
  <2>2. Kernel' /\ MasterAgrees'
    BY <1>0, <1>4, <2>1 DEF Kernel, MasterAgrees
  <2> QED
    BY <1>0, <1>2, <1>4, <2>2, VisitEnds
<1> QED
  BY <1>3, <1>4 DEF AfterClientCall

LEMMA HandlersKeep ==
  ASSUME IInv, NEW fd, CallFails(fd) \/ ReadClient(fd) \/ WriteClient(fd) \/ Exception(fd)
  PROVE  IInv'
<1>0. /\ Kernel /\ MasterAgrees /\ Fresh /\ Pass /\ Enough /\ pc = "pass"
      /\ max_fd' \in 0 .. FdLimit - 1 /\ max_fd' = max_fd /\ lock_file \in BOOLEAN
  BY PartsOfIInv DEF Parts, CallFails, ReadClient, WriteClient, Exception, Visit, Looping
<1>1. ASSUME NEW c, c = sock[fd], fd \in ClientFds, c # NoConn
      PROVE  /\ data[c] \in {"none", "part", "whole"}
             /\ request[c] \in {"none", "bad", "resource"}
  BY <1>0, <1>1 DEF Kernel
<1>2. CASE CallFails(fd)
  <2>1. fd \in ClientFds /\ Visit(fd) /\ sock[fd] # NoConn /\ UNCHANGED <<max_fd, lock_file>>
    BY <1>2 DEF CallFails
  <2>2. \E outcome \in {"refused", "null", "success", "error", "closed"} :
           AfterClientCall(fd, outcome, data[sock[fd]], request[sock[fd]])
    BY <1>2 DEF CallFails
  <2> QED
    BY <1>0, <1>1, <2>1, <2>2, ClientCallKeeps
<1>3. CASE ReadClient(fd)
  <2>1. fd \in ClientFds /\ Visit(fd) /\ sock[fd] # NoConn /\ UNCHANGED <<max_fd, lock_file>>
    BY <1>3 DEF ReadClient
  <2>2. \E outcome \in {"refused", "null", "success", "error", "closed"},
           waiting \in {"none", "part", "whole"}, kept \in {"none", "bad", "resource"} :
             AfterClientCall(fd, outcome, waiting, kept)
    BY <1>1, <1>3, <2>1 DEF ReadClient
  <2> QED
    BY <1>0, <2>1, <2>2, ClientCallKeeps
<1>4. CASE WriteClient(fd)
  <2>1. fd \in ClientFds /\ Visit(fd) /\ sock[fd] # NoConn /\ UNCHANGED max_fd
    BY <1>4 DEF WriteClient
  <2>2. \/ /\ lock_file' \in BOOLEAN
           /\ \E outcome \in {"refused", "null", "success", "error", "closed"},
                 kept \in {"none", "bad", "resource"} :
                AfterClientCall(fd, outcome, data[sock[fd]], kept)
        \/ pc' = "killed" /\ UNCHANGED <<stop, ret_val, tables>>
    BY <1>0, <1>4 DEF WriteClient
  <2>3. CASE pc' = "killed" /\ UNCHANGED <<stop, ret_val, tables>>
    <3>1. Kernel' /\ MasterAgrees' /\ sock' = sock /\ lock_file' = lock_file
      BY <1>0, <2>3 DEF tables, Kernel, MasterAgrees
    <3> QED
      BY <1>0, <2>1, <2>3, <3>1, VisitEnds
  <2> QED
    BY <1>0, <1>1, <2>1, <2>2, <2>3, ClientCallKeeps
<1>5. CASE Exception(fd)
  <2>1. Visit(fd) /\ (Break \/ Continue)
    BY <1>5 DEF Exception
  <2>2. CASE UNCHANGED tables
    <3>1. Kernel' /\ MasterAgrees' /\ sock' = sock /\ lock_file' = lock_file
      BY <1>0, <2>2 DEF tables, Kernel, MasterAgrees
    <3> QED
      BY <1>0, <2>1, <3>1, VisitEnds
  <2>3. CASE fd \notin Listeners /\ sock[fd] # NoConn /\ FreeClient(fd) /\ UNCHANGED lock_file
    <3>1. fd \in ClientFds /\ Remaining' = Remaining \ {fd}
      BY <1>0, <2>1, <2>3, VisitKeeps
    <3>2. Kernel' /\ MasterAgrees' /\ \A g \in ClientFds : g # fd => sock'[g] = sock[g]
      BY <1>0, <2>3, <3>1, FreeClientKeeps
    <3> QED
      BY <1>0, <2>1, <2>3, <3>1, <3>2, VisitEnds
  <2> QED
    BY <1>5, <2>2, <2>3 DEF Exception
<1> QED
  BY <1>2, <1>3, <1>4, <1>5

LEMMA HeartbeatKeeps ==
  ASSUME IInv, Heartbeat
  PROVE  IInv'
<1>0. /\ Kernel /\ MasterAgrees /\ Fresh /\ Pass /\ Enough /\ pc = "pass"
      /\ max_fd' \in 0 .. FdLimit - 1 /\ max_fd' = max_fd /\ lock_file \in BOOLEAN
  BY PartsOfIInv DEF Parts, Heartbeat, Visit, Looping
<1>1. Visit(sockfd_udp) /\ (Break \/ Continue) /\ UNCHANGED tables
  BY DEF Heartbeat
<1>2. Kernel' /\ MasterAgrees' /\ sock' = sock /\ lock_file' = lock_file
  BY <1>0, <1>1 DEF tables, Kernel, MasterAgrees
<1> QED
  BY <1>0, <1>1, <1>2, VisitEnds

\* The two tables hold every open connection, so that freeing them leaves none.
LEMMA CleanupKeeps ==
  ASSUME IInv, Cleanup
  PROVE  IInv'
<1>0. /\ Control /\ Kernel /\ Pass /\ pc = "cleanup" /\ max_fd \in 0 .. FdLimit - 1
      /\ lock_file \in BOOLEAN
  BY PartsOfIInv DEF Parts, Cleanup
<1> USE ServerAssumption
<1>1. /\ pc' \in {"failed", "destroy"} /\ clients' = {} /\ http_clients' = {} /\ master' = {}
      /\ UNCHANGED <<stop, ret_val, max_fd, read_fds, write_fds, except_fds, seen,
                     select_ret, lock_file>>
      /\ sock' = [fd \in ClientFds |->
                    IF fd \in clients \cup http_clients THEN NoConn ELSE sock[fd]]
      /\ Disconnect({sock[fd] : fd \in clients \cup http_clients})
  BY <1>0 DEF Cleanup, FreeTables, ready
<1>2. sock' = [fd \in ClientFds |-> NoConn]
  BY <1>0, <1>1 DEF Kernel
<1>3. \A c \in Conns : conn'[c] # "open"
  <2> SUFFICES ASSUME NEW c \in Conns, conn'[c] = "open" PROVE FALSE
    OBVIOUS
  <2>1. conn[c] = "open" /\ c \notin {sock[fd] : fd \in clients \cup http_clients}
    BY <1>1 DEF Disconnect
  <2>2. PICK fd \in ClientFds : sock[fd] = c
    BY <1>0, <2>1 DEF Kernel
  <2>3. fd \in clients \cup http_clients
    BY <1>0, <2>2 DEF Kernel
  <2> QED
    BY <2>1, <2>2, <2>3
<1>4. /\ conn' \in [Conns -> {"new", "pending", "open", "gone"}]
      /\ data' \in [Conns -> {"none", "part", "whole"}]
      /\ request' \in [Conns -> {"none", "bad", "resource"}]
      /\ left' \subseteq Conns /\ full' \subseteq Conns
  BY <1>0, <1>1 DEF Kernel, Disconnect
<1>5. Kernel'
  BY <1>1, <1>2, <1>3, <1>4 DEF Kernel
<1>6. Pass' /\ Control'
  BY <1>0, <1>1 DEF Pass, Control
<1>7. Early' /\ CleanExit' /\ ~Looping' /\ pc' # "pass"
  BY <1>1, <1>3 DEF Early, CleanExit, Looping
<1> QED
  BY <1>0, <1>1, <1>5, <1>6, <1>7, PartsOfIInv DEF Parts

\* The inductive invariant.
THEOREM ServerInv == Spec => []IInv
<1>1. Init => IInv
  BY IInvInit
<1>2. IInv /\ [Next]_vars => IInv'
  <2> SUFFICES ASSUME IInv, [Next]_vars PROVE IInv'
    OBVIOUS
  <2>1. CASE UNCHANGED vars
    BY <2>1 DEF vars, IInv, TypeOK, TablesAgree, Early, SnapshotFresh, NobodySkipped,
                CleanExit, Looping, Remaining
  <2>2. CASE (\E c \in Conns : Client(c)) \/ Sigint
    BY <2>2, Environment
  <2>3. CASE setup_signals \/ Setup \/ StartLoop \/ PassEnds \/ Finish
    BY <2>3, Outside
  <2>4. CASE Select
    BY <2>4, SelectKeeps
  <2>5. ASSUME NEW fd \in 0 .. max_fd, Accept(fd) PROVE IInv'
    BY <2>5, AcceptKeeps
  <2>6. ASSUME NEW fd \in 0 .. max_fd,
               CallFails(fd) \/ ReadClient(fd) \/ WriteClient(fd) \/ Exception(fd)
        PROVE  IInv'
    BY <2>6, HandlersKeep
  <2>7. CASE Heartbeat
    BY <2>7, HeartbeatKeeps
  <2>8. CASE Cleanup
    BY <2>8, CleanupKeeps
  <2> QED
    BY <2>1, <2>2, <2>3, <2>4, <2>5, <2>6, <2>7, <2>8 DEF Next, Main, Terminated
<1> QED
  BY <1>1, <1>2, PTL DEF Spec

\* Types: descriptors within the limit, a countdown that is never negative.
THEOREM TypeCorrect == Spec => []TypeOK
BY ServerInv, PTL DEF IInv

\* The bit in master, the table entry and the socket live and die together.
THEOREM TablesCorrect == Spec => []TablesAgree
BY ServerInv, PTL DEF IInv

\* No visit meets a connection other than the one select reported.
THEOREM SnapshotsAreFresh == Spec => []SnapshotFresh
BY ServerInv, PTL DEF IInv

\* The countdown of select_ret never ends a pass early.
THEOREM NobodyIsSkipped == Spec => []NobodySkipped
BY ServerInv, PTL DEF IInv

\* No connection is left open when the program ends by itself.
THEOREM ExitIsClean == Spec => []CleanExit
BY ServerInv, PTL DEF IInv
===============================================================================
