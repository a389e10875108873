---------------------------- MODULE PingPong_proofs ----------------------------
(***************************************************************************)
(* The simple TCP service for any number of clients and any capacity.      *)
(* What makes the invariants inductive is what the snapshot says of a      *)
(* socket that is still to be written: it has room, or its client is gone  *)
(* since, but it was not written to after that.                            *)
(***************************************************************************)
EXTENDS PingPong, FiniteSetTheorems, TLAPS

\* The two halves of a snapshot.
Halves ==
  /\ readfds \cap writefds = {}
  /\ spc = "select" => readfds = {} /\ writefds = {}

\* A socket to be written holds what select promised, and is not yet broken.
Promised ==
  \A c \in writefds : peer[c] # "broken" /\ (peer[c] = "open" => Len(down[c]) < MaxDown)

\* The server has nothing of a client that did not connect yet.
Strange == \A c \in Clients : cpc[c] = "idle" => ~ entry[c]

IInv == TypeOK /\ SnapshotIsValid /\ Halves /\ Promised /\ Strange /\ KilledOnlyByCrossing

-------------------------------------------------------------------------------
\* Counting the PONGs of a sequence.

PongsIn(s) == {i \in DOMAIN s : s[i] = "PONG"}

LEMMA PongsFinite ==
  ASSUME NEW s \in Seq(Messages)
  PROVE  IsFiniteSet(PongsIn(s)) /\ Cardinality(PongsIn(s)) \in Nat
<1>1. IsFiniteSet(1 .. Len(s))
  BY FS_Interval
<1>2. PongsIn(s) \in SUBSET (1 .. Len(s))
  BY DEF PongsIn
<1> QED
  BY <1>1, <1>2, FS_Subset, FS_CardinalityType

LEMMA PongsAppend ==
  ASSUME NEW s \in Seq(Messages), NEW m \in Messages
  PROVE  Cardinality(PongsIn(Append(s, m)))
           = Cardinality(PongsIn(s)) + (IF m = "PONG" THEN 1 ELSE 0)
<1>1. IsFiniteSet(PongsIn(s)) /\ Cardinality(PongsIn(s)) \in Nat
  BY PongsFinite
<1>2. Len(s) + 1 \notin PongsIn(s)
  BY DEF PongsIn
<1>3. PongsIn(Append(s, m)) = IF m = "PONG" THEN PongsIn(s) \cup {Len(s) + 1} ELSE PongsIn(s)
  BY DEF PongsIn
<1>4. Cardinality(PongsIn(s) \cup {Len(s) + 1}) = Cardinality(PongsIn(s)) + 1
  BY <1>1, <1>2, FS_AddElement
<1>5. CASE m = "PONG"
  BY <1>3, <1>4, <1>5
<1>6. CASE m # "PONG"
  BY <1>1, <1>3, <1>6
<1> QED
  BY <1>5, <1>6

LEMMA PongsTail ==
  ASSUME NEW s \in Seq(Messages), s # <<>>
  PROVE  Cardinality(PongsIn(Tail(s))) <= Cardinality(PongsIn(s))
<1> DEFINE next == [i \in PongsIn(Tail(s)) |-> i + 1]
<1>1. Tail(s) \in Seq(Messages) /\ Len(Tail(s)) = Len(s) - 1
      /\ \A i \in 1 .. Len(s) - 1 : Tail(s)[i] = s[i + 1]
  OBVIOUS
<1>2. \A i \in PongsIn(Tail(s)) : i \in Nat /\ i + 1 \in PongsIn(s)
  BY <1>1 DEF PongsIn
<1>3. next \in Injection(PongsIn(Tail(s)), PongsIn(s))
  BY <1>2 DEF Injection, IsInjective
<1>4. IsFiniteSet(PongsIn(s))
  BY PongsFinite
<1> QED
  BY <1>3, <1>4, FS_Injection

LEMMA PongsHead ==
  ASSUME NEW s \in Seq(Messages), s # <<>>, Head(s) = "PONG"
  PROVE  Cardinality(PongsIn(s)) >= 1
<1>1. IsFiniteSet(PongsIn(s)) /\ Cardinality(PongsIn(s)) \in Nat
  BY PongsFinite
<1>2. 1 \in PongsIn(s)
  BY DEF PongsIn
<1> QED
  BY <1>1, <1>2, FS_EmptySet

LEMMA PongsEmpty == Cardinality(PongsIn(<<>>)) = 0
<1>1. PongsIn(<<>>) = {}
  BY DEF PongsIn
<1> QED
  BY <1>1, FS_EmptySet

-------------------------------------------------------------------------------
\* The invariant.

LEMMA IInvInit == Init => IInv
BY PingPongAssumption
DEF Init, IInv, TypeOK, SnapshotIsValid, Halves, Promised, Strange, KilledOnlyByCrossing, Watched, Messages

LEMMA ClientSteps ==
  ASSUME IInv, NEW c \in Clients, Connect(c) \/ ClientStep(c) \/ ClientLeaves(c)
  PROVE  IInv'
<1> USE PingPongAssumption DEF IInv, TypeOK
<1>1. SnapshotIsValid' /\ Halves' /\ Strange'
  BY DEF Connect, ClientStep, ReceiveHello, SendPing, ReceiveReply, ClientLeaves, Close, pass,
         SnapshotIsValid, Halves, Strange, Watched
<1>2. CASE Connect(c)
  <2>1. TypeOK'
    BY <1>2 DEF Connect, pass
  <2>2. Promised'
    BY <1>2 DEF Connect, pass, Promised, Strange, SnapshotIsValid, Watched
  <2>3. KilledOnlyByCrossing'
    BY <1>2 DEF Connect, pass, KilledOnlyByCrossing, Serving
  <2> QED
    BY <1>1, <2>1, <2>2, <2>3
<1>3. CASE ReceiveHello(c)
  <2>1. TypeOK' /\ Promised'
    BY <1>3 DEF ReceiveHello, pass, Promised
  <2> QED
    BY <1>1, <1>3, <2>1 DEF ReceiveHello, pass, KilledOnlyByCrossing
<1>4. CASE SendPing(c)
  <2>1. TypeOK' /\ Promised'
    BY <1>4 DEF SendPing, pass, Promised
  <2> QED
    BY <1>1, <1>4, <2>1 DEF SendPing, pass, KilledOnlyByCrossing
<1>5. ASSUME NEW left, Close(c, left), UNCHANGED <<up, entry, packet, pass>>,
             reply' \in [Clients -> Messages \cup {"none"}]
      PROVE  TypeOK' /\ Promised' /\ KilledOnlyByCrossing'
  <2>1. \E p \in {"fin", "reset", "crossed"} :
          peer' = [peer EXCEPT ![c] = IF @ = "open" THEN p ELSE @]
    BY <1>5 DEF Close
  <2>2. TypeOK'
    BY <1>5, <2>1 DEF Close, pass
  <2>3. Promised'
    BY <1>5, <2>1 DEF Close, pass, Promised
  <2>4. KilledOnlyByCrossing'
    BY <1>5, <2>1 DEF pass, KilledOnlyByCrossing
  <2> QED
    BY <2>2, <2>3, <2>4
<1>6. CASE ReceiveReply(c)
  <2>1. reply' \in [Clients -> Messages \cup {"none"}]
    BY <1>6 DEF ReceiveReply
  <2> QED
    BY <1>1, <1>5, <1>6, <2>1 DEF ReceiveReply
<1>7. CASE ClientLeaves(c)
  BY <1>1, <1>5, <1>7 DEF ClientLeaves
<1> QED
  BY <1>2, <1>3, <1>4, <1>6, <1>7 DEF ClientStep

LEMMA HandlerSteps ==
  ASSUME IInv, NEW c \in Clients,
         handle_client_simple_read(c) \/ handle_client_simple_write(c) \/ HandlerFails(c)
  PROVE  IInv'
<1> USE PingPongAssumption DEF IInv, TypeOK
<1>1. CASE handle_client_simple_read(c)
  <2>1. spc = "pass" /\ spc' = spc /\ c \in readfds /\ readfds' = readfds \ {c}
        /\ writefds' = writefds /\ UNCHANGED <<cpc, reply, down>>
    BY <1>1 DEF handle_client_simple_read, client
  <2>2. c \notin writefds
    BY <2>1 DEF Halves
  <2>3. CASE up[c] # <<>>
    <3>1. /\ up' = [up EXCEPT ![c] = Tail(@)] /\ packet' = [packet EXCEPT ![c] = Head(up[c])]
          /\ UNCHANGED <<entry, peer>>
      BY <1>1, <2>3 DEF handle_client_simple_read
    <3>2. TypeOK'
      BY <2>1, <2>3, <3>1
    <3> QED
      BY <2>1, <3>1, <3>2
      DEF SnapshotIsValid, Halves, Promised, Strange, KilledOnlyByCrossing, Watched
  <2>4. CASE up[c] = <<>>
    <3>1. Forget(c)
      BY <1>1, <2>4 DEF handle_client_simple_read
    <3>2. TypeOK'
      BY <2>1, <3>1 DEF Forget
    <3>3. SnapshotIsValid'
      BY <2>1, <2>2, <3>1 DEF Forget, SnapshotIsValid, Watched
    <3>4. Promised'
      BY <2>1, <2>2, <3>1 DEF Forget, Promised
    <3> QED
      BY <2>1, <3>1, <3>2, <3>3, <3>4 DEF Forget, Halves, Strange, KilledOnlyByCrossing
  <2> QED
    BY <2>3, <2>4
<1>2. CASE handle_client_simple_write(c)
  <2> DEFINE message == IF packet[c] = "PING" THEN "PONG" ELSE "HOLA"
  <2>1. spc = "pass" /\ c \in writefds /\ writefds' = writefds \ {c} /\ readfds' = readfds
        /\ Send(c, message) /\ UNCHANGED <<cpc, reply>>
    BY <1>2 DEF handle_client_simple_write, client
  <2>2. c \notin readfds
    BY <2>1 DEF Halves
  <2>3. message \in Messages
    BY DEF Messages
  <2>4. peer[c] # "broken" /\ (peer[c] = "open" => Len(down[c]) < MaxDown)
    BY <2>1 DEF Promised
  <2>5. spc' \in {"pass", "killed"} /\ (spc' = "killed" => peer[c] = "crossed")
    BY <2>1, <2>4 DEF Send
  <2> HIDE DEF message
  <2>6. CASE peer[c] = "reset"
    <3>1. Forget(c) /\ down' = down /\ spc' = spc
      BY <2>1, <2>6 DEF Send
    <3>2. TypeOK'
      BY <2>1, <3>1 DEF Forget
    <3>3. SnapshotIsValid'
      BY <2>1, <2>2, <3>1 DEF Forget, SnapshotIsValid, Watched
    <3>4. Promised'
      BY <2>1, <3>1 DEF Forget, Promised
    <3> QED
      BY <2>1, <3>1, <3>2, <3>3, <3>4 DEF Forget, Halves, Strange, KilledOnlyByCrossing
  <2>7. CASE peer[c] # "reset"
    <3>1. /\ down' = [down EXCEPT ![c] = IF peer[c] = "open" THEN Append(@, message) ELSE @]
          /\ peer' = [peer EXCEPT ![c] = IF @ = "fin" THEN "broken" ELSE @]
          /\ packet' = [packet EXCEPT ![c] = message]
          /\ UNCHANGED <<entry, up>>
      BY <2>1, <2>7 DEF Send
    <3>2. TypeOK'
      BY <2>1, <2>3, <2>4, <2>5, <3>1
    <3>3. SnapshotIsValid' /\ Halves' /\ Strange'
      BY <2>1, <2>5, <3>1 DEF SnapshotIsValid, Halves, Strange, Watched
    <3>4. Promised'
      BY <2>1, <3>1 DEF Promised
    <3>5. KilledOnlyByCrossing'
      BY <2>5, <3>1 DEF KilledOnlyByCrossing
    <3> QED
      BY <3>2, <3>3, <3>4, <3>5
  <2> QED
    BY <2>6, <2>7
<1>3. CASE HandlerFails(c)
  <2>1. spc = "pass" /\ spc' = spc /\ readfds' = readfds \ {c} /\ writefds' = writefds \ {c}
        /\ Forget(c) /\ UNCHANGED <<cpc, reply, down>>
    BY <1>3 DEF HandlerFails, client
  <2>2. TypeOK'
    BY <2>1 DEF Forget
  <2>3. SnapshotIsValid'
    BY <2>1, PingPongAssumption DEF Forget, SnapshotIsValid, Watched
  <2>4. Promised'
    BY <2>1 DEF Forget, Promised
  <2> QED
    BY <2>1, <2>2, <2>3, <2>4 DEF Forget, Halves, Strange, KilledOnlyByCrossing
<1> QED
  BY <1>1, <1>2, <1>3

LEMMA LoopSteps ==
  ASSUME IInv, Select \/ Accept \/ PassEnds \/ ServerStops
  PROVE  IInv'
<1> USE PingPongAssumption DEF IInv, TypeOK
<1>1. CASE Select
  <2>1. TypeOK' /\ Halves'
    BY <1>1 DEF Select, client, Halves, Watched
  <2>2. SnapshotIsValid'
    BY <1>1 DEF Select, SnapshotIsValid, Watched
  <2>3. Promised'
    BY <1>1 DEF Select, client, Promised, Readable, Writable, Watched
  <2> QED
    BY <1>1, <2>1, <2>2, <2>3 DEF Select, client, Strange, KilledOnlyByCrossing
<1>2. CASE Accept
  <2>1. TypeOK'
    BY <1>2, ZenonT(30) DEF Accept, client
  <2>2. SnapshotIsValid'
    BY <1>2 DEF Accept, SnapshotIsValid, Watched
  <2>3. Strange'
    BY <1>2 DEF Accept, client, Pending, Strange
  <2> QED
    BY <1>2, <2>1, <2>2, <2>3 DEF Accept, client, Halves, Promised, KilledOnlyByCrossing
<1>3. CASE PassEnds
  BY <1>3 DEF PassEnds, client, SnapshotIsValid, Halves, Promised, Strange, KilledOnlyByCrossing, Watched
<1>4. CASE ServerStops
  <2>1. TypeOK'
    BY <1>4 DEF ServerStops, client
  <2> QED
    BY <1>4, <2>1 DEF ServerStops, SnapshotIsValid, Halves, Promised, Strange, KilledOnlyByCrossing
<1> QED
  BY <1>1, <1>2, <1>3, <1>4

LEMMA IInvStep == IInv /\ [Next]_vars => IInv'
<1>1. ASSUME IInv, UNCHANGED vars PROVE IInv'
  BY <1>1 DEF vars, IInv, TypeOK, SnapshotIsValid, Halves, Promised, Strange, KilledOnlyByCrossing, Watched
<1> QED
  BY <1>1, ClientSteps, HandlerSteps, LoopSteps DEF Next, ServerStep, Terminated

THEOREM PingPongInv == Spec => []IInv
  BY IInvInit, IInvStep, PTL DEF Spec

\* The variables keep their ranges; in particular the server never puts more
\* into a socket than select promised room for.
THEOREM TypeCorrect == Spec => []TypeOK
  BY PingPongInv, PTL DEF IInv

\* No handler runs for a client that was forgotten earlier in the pass.
THEOREM SnapshotsAreValid == Spec => []SnapshotIsValid
  BY PingPongInv, PTL DEF IInv

\* SIGPIPE takes a packet that crossed a close.
THEOREM KilledByCrossing == Spec => []KilledOnlyByCrossing
  BY PingPongInv, PTL DEF IInv

-------------------------------------------------------------------------------
\* One PONG for one PING: what was asked is at most once in the packets read,
\* the packet at hand, the packets under way, and the answer.

\* The bound for a client in state state with an answer, packets down and up, and
\* the server's packet.
Once(state, answer, d, u, p) ==
  Cardinality(PongsIn(d)) + (IF answer = "PONG" THEN 1 ELSE 0)
    + Len(u) + (IF p = "PING" THEN 1 ELSE 0)
  <= IF state \in {"reply", "closed"} THEN 1 ELSE 0

OnceFor(c) == Once(cpc[c], reply[c], down[c], up[c], packet[c])

LEMMA OnceForAll == OnePongPerPing <=> \A c \in Clients : OnceFor(c)
BY DEF OnePongPerPing, OnceFor, Once, Pongs, PongsIn

LEMMA OnceInit == Init => \A c \in Clients : OnceFor(c)
<1> SUFFICES ASSUME Init, NEW c \in Clients PROVE OnceFor(c)
  OBVIOUS
<1>1. cpc[c] = "idle" /\ reply[c] = "none" /\ down[c] = <<>> /\ up[c] = <<>> /\ packet[c] = "none"
  BY DEF Init
<1> QED
  BY <1>1, PongsEmpty DEF OnceFor, Once

\* What a client's step does to its own bound.
LEMMA OnceClientStep ==
  ASSUME TypeOK, NEW c \in Clients, OnceFor(c), Connect(c) \/ ClientStep(c) \/ ClientLeaves(c)
  PROVE  OnceFor(c)'
<1> USE DEF TypeOK
<1>1. /\ Cardinality(PongsIn(down[c])) \in Nat /\ Len(up[c]) \in Nat
      /\ down[c] \in Seq(Messages) /\ up[c] \in Seq({"PING"})
  BY PongsFinite
<1>2. CASE Connect(c)
  <2>1. cpc[c] = "idle" /\ cpc'[c] = "hello" /\ UNCHANGED <<reply, down, up, packet>>
    BY <1>2 DEF Connect
  <2> QED
    BY <2>1 DEF OnceFor, Once
<1>3. CASE ReceiveHello(c)
  <2>1. /\ cpc[c] = "hello" /\ cpc'[c] = "ping" /\ down'[c] = Tail(down[c]) /\ down[c] # <<>>
        /\ UNCHANGED <<reply, up, packet>>
    BY <1>3 DEF ReceiveHello
  <2>2. Tail(down[c]) \in Seq(Messages)
    BY <1>1, <2>1
  <2>3. /\ Cardinality(PongsIn(Tail(down[c]))) \in Nat
        /\ Cardinality(PongsIn(Tail(down[c]))) <= Cardinality(PongsIn(down[c]))
    BY <1>1, <2>1, <2>2, PongsTail, PongsFinite
  <2> QED
    BY <1>1, <2>1, <2>3 DEF OnceFor, Once
<1>4. CASE SendPing(c)
  <2>1. /\ cpc[c] = "ping" /\ cpc'[c] = "reply" /\ up'[c] = Append(up[c], "PING")
        /\ UNCHANGED <<reply, down, packet>>
    BY <1>4 DEF SendPing
  <2>2. Len(up'[c]) = Len(up[c]) + 1
    BY <1>1, <2>1
  <2> QED
    BY <1>1, <2>1, <2>2 DEF OnceFor, Once
<1>5. CASE ReceiveReply(c)
  <2>1. /\ cpc[c] = "reply" /\ cpc'[c] = "closed" /\ down'[c] = <<>> /\ down[c] # <<>>
        /\ reply'[c] = Head(down[c]) /\ UNCHANGED <<up, packet>>
    BY <1>5 DEF ReceiveReply, Close
  <2>2. reply'[c] = "PONG" => Cardinality(PongsIn(down[c])) >= 1
    BY <1>1, <2>1, PongsHead
  <2> QED
    BY <1>1, <2>1, <2>2, PongsEmpty DEF OnceFor, Once
<1>6. CASE ClientLeaves(c)
  <2>1. cpc'[c] = "closed" /\ down'[c] = <<>> /\ UNCHANGED <<reply, up, packet>>
    BY <1>6 DEF ClientLeaves, Close
  <2> QED
    BY <1>1, <2>1, PongsEmpty DEF OnceFor, Once
<1> QED
  BY <1>2, <1>3, <1>4, <1>5, <1>6 DEF ClientStep

\* What a handler does to the bound of the client it is called for.
LEMMA OnceHandlerStep ==
  ASSUME TypeOK, NEW c \in Clients, OnceFor(c),
         handle_client_simple_read(c) \/ handle_client_simple_write(c) \/ HandlerFails(c)
  PROVE  OnceFor(c)'
<1> USE DEF TypeOK
<1>1. /\ Cardinality(PongsIn(down[c])) \in Nat /\ Len(up[c]) \in Nat
      /\ down[c] \in Seq(Messages) /\ up[c] \in Seq({"PING"})
  BY PongsFinite
<1>2. UNCHANGED <<cpc, reply>>
  BY DEF handle_client_simple_read, handle_client_simple_write, HandlerFails, client
<1>3. ASSUME Forget(c), down' = down PROVE OnceFor(c)'
  <2>1. up'[c] = <<>> /\ packet'[c] = "none"
    BY <1>3 DEF Forget
  <2> QED
    BY <1>1, <1>2, <1>3, <2>1 DEF OnceFor, Once
<1>4. CASE handle_client_simple_read(c) /\ up[c] = <<>>
  BY <1>3, <1>4 DEF handle_client_simple_read
<1>5. CASE handle_client_simple_read(c) /\ up[c] # <<>>
  <2>1. up'[c] = Tail(up[c]) /\ packet'[c] = Head(up[c]) /\ down' = down
    BY <1>5 DEF handle_client_simple_read
  <2>2. Len(up'[c]) = Len(up[c]) - 1
    BY <1>1, <1>5, <2>1
  <2> QED
    BY <1>1, <1>2, <2>1, <2>2 DEF OnceFor, Once
<1>6. CASE handle_client_simple_write(c) /\ peer[c] = "reset"
  BY <1>3, <1>6 DEF handle_client_simple_write, Send
<1>7. CASE handle_client_simple_write(c) /\ peer[c] # "reset"
  <2> DEFINE message == IF packet[c] = "PING" THEN "PONG" ELSE "HOLA"
  <2>1. /\ down'[c] = IF peer[c] = "open" THEN Append(down[c], message) ELSE down[c]
        /\ packet'[c] = message /\ up' = up
    BY <1>7 DEF handle_client_simple_write, Send
  <2>2. message \in Messages /\ message # "PING" /\ (message = "PONG" <=> packet[c] = "PING")
    BY DEF Messages
  <2> HIDE DEF message
  <2>3. Cardinality(PongsIn(Append(down[c], message)))
          = Cardinality(PongsIn(down[c])) + (IF message = "PONG" THEN 1 ELSE 0)
    BY <1>1, <2>2, PongsAppend
  <2> QED
    BY <1>1, <1>2, <2>1, <2>2, <2>3 DEF OnceFor, Once
<1>8. CASE HandlerFails(c)
  BY <1>3, <1>8 DEF HandlerFails
<1> QED
  BY <1>4, <1>5, <1>6, <1>7, <1>8

\* Nobody else's bound is touched.
LEMMA OnceOthers ==
  ASSUME TypeOK, NEW c \in Clients, NEW d \in Clients, c # d, OnceFor(d),
         \/ Connect(c) \/ ClientStep(c) \/ ClientLeaves(c)
         \/ handle_client_simple_read(c) \/ handle_client_simple_write(c) \/ HandlerFails(c)
  PROVE  OnceFor(d)'
<1>1. /\ cpc'[d] = cpc[d] /\ reply'[d] = reply[d] /\ down'[d] = down[d] /\ up'[d] = up[d]
      /\ packet'[d] = packet[d]
  BY DEF TypeOK, Connect, ClientStep, ReceiveHello, SendPing, ReceiveReply, ClientLeaves, Close,
         handle_client_simple_read, handle_client_simple_write, HandlerFails, Send, Forget, client
<1> QED
  BY <1>1 DEF OnceFor

\* The loop only ever forgets a packet.
LEMMA OnceLoopStep ==
  ASSUME TypeOK, NEW c \in Clients, OnceFor(c), Select \/ Accept \/ PassEnds \/ ServerStops
  PROVE  OnceFor(c)'
<1>1. /\ UNCHANGED <<cpc, reply, down, up>>
      /\ packet'[c] = packet[c] \/ packet'[c] = "none"
  BY DEF TypeOK, Select, Accept, PassEnds, ServerStops, client
<1>2. Cardinality(PongsIn(down[c])) \in Nat /\ Len(up[c]) \in Nat
  BY PongsFinite DEF TypeOK
<1> QED
  BY <1>1, <1>2 DEF OnceFor, Once

LEMMA OnceStep ==
  ASSUME IInv, \A c \in Clients : OnceFor(c), [Next]_vars
  PROVE  \A c \in Clients : OnceFor(c)'
<1>1. TypeOK
  BY DEF IInv
<1>2. SUFFICES ASSUME NEW d \in Clients PROVE OnceFor(d)'
  OBVIOUS
<1>3. CASE UNCHANGED vars
  BY <1>3 DEF vars, OnceFor
<1>4. CASE Select \/ Accept \/ PassEnds \/ ServerStops
  BY <1>1, <1>4, OnceLoopStep
<1>5. ASSUME NEW c \in Clients,
             \/ Connect(c) \/ ClientStep(c) \/ ClientLeaves(c)
             \/ handle_client_simple_read(c) \/ handle_client_simple_write(c) \/ HandlerFails(c)
      PROVE  OnceFor(d)'
  BY <1>1, <1>5, OnceClientStep, OnceHandlerStep, OnceOthers
<1> QED
  BY <1>3, <1>4, <1>5 DEF Next, ServerStep, Terminated

\* No PING is answered twice and no PONG comes unasked, for any number of
\* clients that come, talk and leave while the server writes on every pass.
THEOREM NoPongTwice == Spec => []OnePongPerPing
<1> DEFINE All == \A c \in Clients : OnceFor(c)
<1>1. Init => All
  BY OnceInit
<1>2. IInv /\ All /\ [Next]_vars => All'
  BY OnceStep
<1>3. All => OnePongPerPing
  BY OnceForAll
<1> HIDE DEF All
<1> QED
  BY <1>1, <1>2, <1>3, PingPongInv, PTL DEF Spec
===============================================================================
