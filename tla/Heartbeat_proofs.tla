--------------------------- MODULE Heartbeat_proofs ---------------------------
(***************************************************************************)
(* What holds of the heartbeat service for every set of clients and other  *)
(* senders, every retry limit and every buffer size.                       *)
(***************************************************************************)
EXTENDS Heartbeat, TLAPS

IInv == TypeOK /\ ReadHasData /\ PacketMatchesAddr /\ AcksEarned /\ SilenceCounted

USE DEF client, server

\* The invariant holds before the first heartbeat.
LEMMA IInvInit == Init => IInv
<1> SUFFICES ASSUME Init PROVE IInv
  OBVIOUS
<1>1. /\ cpc \in [Clients -> {"send", "wait", "gaveup", "failed"}]
      /\ retries \in [Clients -> 0 .. HEARTBEAT_MAX_RETRIES]
      /\ up \in [Clients -> 0 .. MaxInFlight] /\ acks \in [Clients -> 0 .. MaxInFlight]
      /\ silence \in [Clients -> Nat]
  BY HeartbeatAssumption DEF Init
<1>2. owed \in [Clients -> BOOLEAN] /\ unearned \in BOOLEAN
  BY DEF Init
<1>3. sockbuf \in Seq(Heartbeats \cup Strays) /\ Len(sockbuf) <= SocketBuffer
  BY HeartbeatAssumption DEF Init
<1>4. TypeOK
  BY <1>1, <1>2, <1>3 DEF Init, TypeOK
<1> QED
  BY <1>4, HeartbeatAssumption
     DEF Init, IInv, ReadHasData, PacketMatchesAddr, AcksEarned, SilenceCounted

\* Steps of a client, and of the network on its way to a client.
LEMMA ClientSide ==
  ASSUME IInv, NEW c \in Clients,
         ClientStep(c) \/ ClientSendFails(c) \/ Lose(c)
  PROVE  IInv'
<1> USE HeartbeatAssumption DEF IInv, TypeOK
<1>1. UNCHANGED <<sockbuf, server>>
  BY DEF ClientStep, ClientSend, ClientReceive, ClientTimeout, ClientSendFails, Lose
<1>2. ReadHasData' /\ PacketMatchesAddr' /\ AcksEarned'
  BY <1>1 DEF ReadHasData, PacketMatchesAddr, AcksEarned
<1>3. CASE ClientSend(c)
  <2>1. cpc[c] = "send" /\ retries[c] < HEARTBEAT_MAX_RETRIES /\ silence[c] = retries[c]
    BY <1>3 DEF ClientSend, SilenceCounted
  <2>2. /\ up' = [up EXCEPT ![c] = OneMore(up[c])]
        /\ silence' = [silence EXCEPT ![c] = silence[c] + 1]
        /\ cpc' = [cpc EXCEPT ![c] = "wait"]
        /\ UNCHANGED <<retries, acks>>
    BY <1>3 DEF ClientSend
  <2>3. OneMore(up[c]) \in 0 .. MaxInFlight
    BY DEF OneMore
  <2>4. /\ up' \in [Clients -> 0 .. MaxInFlight] /\ silence' \in [Clients -> Nat]
        /\ cpc' \in [Clients -> {"send", "wait", "gaveup", "failed"}]
    BY <2>2, <2>3, SMTT(20)
  <2>5. TypeOK'
    BY <1>1, <2>2, <2>4
  <2>6. SilenceCounted'
    BY <2>1, <2>2 DEF SilenceCounted
  <2> QED
    BY <1>2, <2>5, <2>6
<1>4. CASE ClientReceive(c)
  <2>1. /\ acks[c] > 0
        /\ acks' = [acks EXCEPT ![c] = acks[c] - 1]
        /\ retries' = [retries EXCEPT ![c] = 0] /\ silence' = [silence EXCEPT ![c] = 0]
        /\ cpc' = [cpc EXCEPT ![c] = "send"]
        /\ UNCHANGED up
    BY <1>4 DEF ClientReceive
  <2>2. acks' \in [Clients -> 0 .. MaxInFlight]
    BY <2>1
  <2>3. /\ retries' \in [Clients -> 0 .. HEARTBEAT_MAX_RETRIES] /\ silence' \in [Clients -> Nat]
        /\ cpc' \in [Clients -> {"send", "wait", "gaveup", "failed"}]
    BY <2>1
  <2>4. TypeOK'
    BY <1>1, <2>1, <2>2, <2>3
  <2>5. SilenceCounted'
    BY <2>1 DEF SilenceCounted
  <2> QED
    BY <1>2, <2>4, <2>5
<1>5. CASE ClientTimeout(c)
  <2>1. cpc[c] = "wait" /\ retries[c] < HEARTBEAT_MAX_RETRIES /\ silence[c] = retries[c] + 1
    BY <1>5 DEF ClientTimeout, SilenceCounted
  <2>2. /\ retries' = [retries EXCEPT ![c] = retries[c] + 1]
        /\ cpc' = [cpc EXCEPT ![c] = IF retries[c] + 1 >= HEARTBEAT_MAX_RETRIES
                                     THEN "gaveup" ELSE "send"]
        /\ UNCHANGED <<silence, up, acks>>
    BY <1>5 DEF ClientTimeout
  <2>3. retries[c] + 1 \in 0 .. HEARTBEAT_MAX_RETRIES
    BY <2>1
  <2>4. retries' \in [Clients -> 0 .. HEARTBEAT_MAX_RETRIES]
    BY <2>2, <2>3
  <2>5. cpc' \in [Clients -> {"send", "wait", "gaveup", "failed"}]
    BY <2>2
  <2>6. TypeOK'
    BY <1>1, <2>2, <2>4, <2>5
  <2>7. SilenceCounted'
    <3> SUFFICES ASSUME NEW b \in Clients PROVE
          /\ cpc'[b] = "send"   => retries'[b] < HEARTBEAT_MAX_RETRIES /\ silence'[b] = retries'[b]
          /\ cpc'[b] = "wait"   => retries'[b] < HEARTBEAT_MAX_RETRIES /\ silence'[b] = retries'[b] + 1
          /\ cpc'[b] = "gaveup" => silence'[b] = HEARTBEAT_MAX_RETRIES
          /\ cpc'[b] = "failed" => silence'[b] <= HEARTBEAT_MAX_RETRIES
      BY DEF SilenceCounted
    <3>1. CASE b = c
      BY <2>1, <2>2, <2>3, <3>1
    <3>2. CASE b # c
      BY <2>2, <3>2 DEF SilenceCounted
    <3> QED
      BY <3>1, <3>2
  <2> QED
    BY <1>2, <2>6, <2>7
<1>6. CASE ClientSendFails(c)
  BY <1>1, <1>2, <1>6 DEF ClientSendFails, SilenceCounted
<1>7. CASE Lose(c)
  <2>1. UNCHANGED <<cpc, retries, silence>>
    BY <1>7 DEF Lose, client
  <2>2. up' \in [Clients -> 0 .. MaxInFlight] /\ acks' \in [Clients -> 0 .. MaxInFlight]
    <3>1. CASE up[c] > 0 /\ up' = [up EXCEPT ![c] = up[c] - 1] /\ UNCHANGED acks
      <4>1. up[c] - 1 \in 0 .. MaxInFlight
        BY <3>1
      <4> QED
        BY <3>1, <4>1
    <3>2. CASE acks[c] > 0 /\ acks' = [acks EXCEPT ![c] = acks[c] - 1] /\ UNCHANGED up
      <4>1. acks[c] - 1 \in 0 .. MaxInFlight
        BY <3>2
      <4> QED
        BY <3>2, <4>1
    <3> QED
      BY <1>7, <3>1, <3>2 DEF Lose
  <2>3. TypeOK'
    BY <1>1, <2>1, <2>2 DEF server
  <2>4. SilenceCounted'
    BY <2>1 DEF SilenceCounted
  <2> QED
    BY <1>2, <2>3, <2>4
<1> QED
  BY <1>3, <1>4, <1>5, <1>6, <1>7 DEF ClientStep

\* A datagram that arrives leaves the socket readable.
LEMMA NetworkSide ==
  ASSUME IInv, StrayArrives \/ \E c \in Clients : Arrive(c)
  PROVE  IInv'
<1> USE HeartbeatAssumption DEF IInv, TypeOK
<1>1. ASSUME NEW d \in Heartbeats \cup Strays, Len(sockbuf) < SocketBuffer,
             sockbuf' = Append(sockbuf, d)
      PROVE  /\ sockbuf' \in Seq(Heartbeats \cup Strays)
             /\ Len(sockbuf') <= SocketBuffer /\ sockbuf' # <<>>
  BY <1>1
<1>2. CASE StrayArrives
  BY <1>1, <1>2 DEF StrayArrives, ReadHasData, PacketMatchesAddr, AcksEarned, SilenceCounted
<1>3. ASSUME NEW c \in Clients, Arrive(c) PROVE IInv'
  <2>1. [from |-> c, message |-> "HEARTBEAT"] \in Heartbeats
    BY DEF Heartbeats
  <2>2. /\ sockbuf' \in Seq(Heartbeats \cup Strays) /\ Len(sockbuf') <= SocketBuffer
        /\ sockbuf' # <<>> \/ sockbuf' = sockbuf
    BY <1>1, <1>3, <2>1 DEF Arrive
  <2>3. up' \in [Clients -> 0 .. MaxInFlight]
    BY <1>3, SMTT(20) DEF Arrive
  <2>4. UNCHANGED <<client, acks, server>>
    BY <1>3 DEF Arrive
  <2> QED
    BY <2>2, <2>3, <2>4 DEF ReadHasData, PacketMatchesAddr, AcksEarned, SilenceCounted
<1> QED
  BY <1>2, <1>3

LEMMA ServerSide ==
  ASSUME IInv, ServerStep \/ ReadFails \/ ServerStops
  PROVE  IInv'
<1> USE HeartbeatAssumption DEF IInv, TypeOK
<1>1. UNCHANGED client
  BY DEF ServerStep, Select, handle_client_heartbeat_read,
         handle_client_heartbeat_write, ReadFails, ServerStops
<1>2. SilenceCounted'
  BY <1>1 DEF SilenceCounted
<1>3. CASE Select \/ ReadFails \/ ServerStops
  BY <1>2, <1>3 DEF Select, ReadFails, ServerStops, ReadHasData, PacketMatchesAddr, AcksEarned
<1>4. CASE handle_client_heartbeat_read
  <2>1. sockbuf # <<>>
    BY <1>4 DEF handle_client_heartbeat_read, ReadHasData
  <2> DEFINE d == Head(sockbuf)
  <2>2. d \in Heartbeats \cup Strays
    BY <2>1
  <2>3. /\ sockbuf' \in Seq(Heartbeats \cup Strays) /\ Len(sockbuf') <= SocketBuffer
    BY <1>4, <2>1 DEF handle_client_heartbeat_read
  <2>4. /\ packet' = IF d.message = "EMPTY" THEN "none" ELSE d.message
        /\ addr' = d.from /\ spc' = "select"
        /\ owed' = [c \in Clients |-> owed[c] \/ (d \in Heartbeats /\ d.from = c)]
        /\ UNCHANGED <<client, up, acks, unearned>>
    BY <1>4 DEF handle_client_heartbeat_read
  <2> HIDE DEF d
  <2>5. /\ d \in Heartbeats => d.from \in Clients /\ d.message = "HEARTBEAT"
        /\ d \in Strays => d.from \in Strangers /\ d.message \in {"OTHER", "EMPTY"}
    BY DEF Heartbeats, Strays
  <2>6. packet' \in {"none", "HEARTBEAT", "OTHER"} /\ addr' \in Clients \cup Strangers \cup {NoOne}
    BY <2>2, <2>4, <2>5
  <2>7. owed' \in [Clients -> BOOLEAN]
    BY <2>4
  <2>8. PacketMatchesAddr'
    BY <2>2, <2>4, <2>5 DEF PacketMatchesAddr
  <2> QED
    BY <1>2, <2>3, <2>4, <2>6, <2>7, <2>8 DEF ReadHasData, AcksEarned
<1>5. CASE handle_client_heartbeat_write
  <2>1. spc' = "select" /\ UNCHANGED <<client, up, sockbuf, addr>>
    BY <1>5 DEF handle_client_heartbeat_write
  <2>2. CASE packet # "HEARTBEAT"
    BY <1>2, <1>5, <2>1, <2>2
       DEF handle_client_heartbeat_write, ReadHasData, PacketMatchesAddr, AcksEarned
  <2>3. ASSUME NEW sent \in BOOLEAN, packet = "HEARTBEAT", SendAck(sent) PROVE IInv'
    <3>1. addr \in Clients /\ owed[addr]
      BY <2>3 DEF PacketMatchesAddr
    <3>2. ~unearned' /\ packet' = "none"
      BY <2>3, <3>1 DEF SendAck, AcksEarned
    <3>3. acks' \in [Clients -> 0 .. MaxInFlight]
      BY <2>3, <3>1 DEF SendAck, OneMore
    <3>4. owed' \in [Clients -> BOOLEAN]
      BY <2>3 DEF SendAck
    <3>5. unearned' \in BOOLEAN
      <4>1. unearned' = (unearned \/ (sent /\ ~owed[addr]))
        BY <2>3 DEF SendAck
      <4> QED
        BY <4>1
    <3>6. TypeOK'
      BY <2>1, <3>2, <3>3, <3>4, <3>5
    <3> QED
      BY <1>2, <2>1, <3>2, <3>6 DEF ReadHasData, PacketMatchesAddr, AcksEarned
  <2> QED
    BY <1>5, <2>2, <2>3 DEF handle_client_heartbeat_write
<1> QED
  BY <1>3, <1>4, <1>5 DEF ServerStep

LEMMA IInvStep == IInv /\ [Next]_vars => IInv'
<1>1. ASSUME IInv, UNCHANGED vars PROVE IInv'
  BY <1>1 DEF vars, IInv, TypeOK, ReadHasData, PacketMatchesAddr, AcksEarned, SilenceCounted
<1> QED
  BY <1>1, ClientSide, NetworkSide, ServerSide DEF Next, Terminated

\* The invariant, from which the theorems below are read off.
THEOREM HeartbeatInv == Spec => []IInv
  BY IInvInit, IInvStep, PTL DEF Spec

\* Retries, packets, addresses and the socket's queue keep their ranges; a queue
\* holds only heartbeats of clients and packets of strangers.
THEOREM TypeCorrect == Spec => []TypeOK
  BY HeartbeatInv, PTL DEF IInv

\* handle_client_heartbeat_read never runs on an empty socket, so its recvfrom
\* never blocks the server.
THEOREM ReadsHaveData == Spec => []ReadHasData
  BY HeartbeatInv, PTL DEF IInv

\* Every ACK answers a heartbeat of the client it is sent to, and answers it
\* once, however many clients share the one packet and the one address.
THEOREM AcksAreEarned == Spec => []AcksEarned
  BY HeartbeatInv, PTL DEF IInv

\* The packet at hand belongs to the address next to it.
THEOREM PacketAndAddress == Spec => []PacketMatchesAddr
  BY HeartbeatInv, PTL DEF IInv

\* No client gives up early, and none goes on past the limit.
THEOREM GivingUp == Spec => []GivesUpWhenSilent
<1>1. IInv => GivesUpWhenSilent
  <2> SUFFICES ASSUME IInv, NEW c \in Clients
               PROVE  /\ silence[c] <= HEARTBEAT_MAX_RETRIES
                      /\ cpc[c] = "gaveup" => silence[c] = HEARTBEAT_MAX_RETRIES
    BY DEF GivesUpWhenSilent
  <2>1. /\ cpc[c] \in {"send", "wait", "gaveup", "failed"}
        /\ retries[c] \in Nat /\ silence[c] \in Nat
    BY HeartbeatAssumption DEF IInv, TypeOK
  <2> QED
    BY <2>1, HeartbeatAssumption DEF IInv, SilenceCounted
<1> QED
  BY <1>1, HeartbeatInv, PTL
===============================================================================
