------------------------------ MODULE Heartbeat -------------------------------
(***************************************************************************)
(* The heartbeat service: the UDP part of handle_connections in server.c   *)
(* with its two handlers, and the clients of heartbeat_client.c.           *)
(*                                                                         *)
(* The server has one Heartbeat_Data for all clients: the last packet it   *)
(* read and the address it came from.  One pass of its loop calls either   *)
(* the read handler, when a datagram is pending, or the write handler,     *)
(* never both; each call is synchronous (module SyncCall), so a handler is *)
(* one step.  A client sends, waits for an answer or a timeout, and gives  *)
(* up after HEARTBEAT_MAX_RETRIES attempts in a row without answer.        *)
(*                                                                         *)
(* Datagrams may be delayed, reordered and lost in both directions.  An    *)
(* answer on its way and one that waits in the client's socket are one and *)
(* the same: in either case the client may time out first.                 *)
(***************************************************************************)
EXTENDS Integers, Sequences

CONSTANTS
  Clients,                 \* the heartbeat clients
  Strangers,               \* other programs that send to the same port
  HEARTBEAT_MAX_RETRIES,
  MaxInFlight,             \* bound: datagrams of a client under way
  SocketBuffer,            \* datagrams the server's socket holds
  NoOne                    \* the address before the first datagram

ASSUME HeartbeatAssumption ==
  /\ HEARTBEAT_MAX_RETRIES \in Nat \ {0}
  /\ MaxInFlight \in Nat \ {0} /\ SocketBuffer \in Nat \ {0}
  /\ NoOne \notin Clients \cup Strangers
  /\ Clients \cap Strangers = {}

VARIABLES
  cpc,       \* control state of each client
  retries,   \* its retries counter
  up,        \* its heartbeats under way to the server
  acks,      \* the ACKs under way to it
  sockbuf,   \* datagrams pending on the server's UDP socket
  spc,       \* the server: about to select, or to call a handler
  packet,    \* heartbeat_data->packet, "none" for NULL
  addr,      \* heartbeat_data->addr
  silence,   \* history: heartbeats a client sent since the last ACK it got
  owed,      \* history: the server read a heartbeat of this client and has
             \* not tried to answer it since
  unearned   \* history: an ACK went to a client that was owed none

client  == <<cpc, retries, silence>>
server  == <<spc, packet, addr, owed, unearned>>
vars == <<cpc, retries, up, acks, sockbuf, spc, packet, addr, silence, owed, unearned>>

Heartbeats == [from : Clients, message : {"HEARTBEAT"}]
Strays     == [from : Strangers, message : {"OTHER", "EMPTY"}]

Init ==
  /\ cpc = [c \in Clients |-> "send"]
  /\ retries = [c \in Clients |-> 0]
  /\ up   = [c \in Clients |-> 0]
  /\ acks = [c \in Clients |-> 0]
  /\ sockbuf = <<>>
  /\ spc = "select" /\ packet = "none" /\ addr = NoOne
  /\ silence = [c \in Clients |-> 0]
  /\ owed = [c \in Clients |-> FALSE]
  /\ unearned = FALSE

\* One more datagram under way, unless the network drops it.
OneMore(n) == IF n < MaxInFlight THEN n + 1 ELSE n

-------------------------------------------------------------------------------
(* A client: the loop of handle_connection. *)

ClientSend(c) ==
  /\ cpc[c] = "send"
  /\ up' = [up EXCEPT ![c] = OneMore(@)]
  /\ silence' = [silence EXCEPT ![c] = @ + 1]
  /\ cpc' = [cpc EXCEPT ![c] = "wait"]
  /\ UNCHANGED <<retries, acks, sockbuf, server>>

\* sendto, or an allocation, fails.
ClientSendFails(c) ==
  /\ cpc[c] = "send"
  /\ cpc' = [cpc EXCEPT ![c] = "failed"]
  /\ UNCHANGED <<retries, silence, up, acks, sockbuf, server>>

\* Mutant: the attempts are counted over the client's whole life.
ClientReceiveNoReset(c) ==
  /\ cpc[c] = "wait" /\ acks[c] > 0
  /\ acks' = [acks EXCEPT ![c] = @ - 1]
  /\ silence' = [silence EXCEPT ![c] = 0]
  /\ cpc' = [cpc EXCEPT ![c] = "send"]
  /\ UNCHANGED <<retries, up, sockbuf, server>>

\* An ACK arrives in time; any ACK will do, a late one too.
ClientReceive(c) ==
  /\ cpc[c] = "wait" /\ acks[c] > 0
  /\ acks' = [acks EXCEPT ![c] = @ - 1]
  /\ retries' = [retries EXCEPT ![c] = 0]
  /\ silence' = [silence EXCEPT ![c] = 0]
  /\ cpc' = [cpc EXCEPT ![c] = "send"]
  /\ UNCHANGED <<up, sockbuf, server>>

\* Mutant: a receive that was interrupted or timed out is simply repeated.
ClientTimeoutWaitsAgain(c) == cpc[c] = "wait" /\ UNCHANGED vars

\* The receive timeout expires, or something that is not an ACK arrives: the next
\* heartbeats then go to its sender, and the server sees as little of them as of
\* lost ones.
ClientTimeout(c) ==
  /\ cpc[c] = "wait"
  /\ retries' = [retries EXCEPT ![c] = @ + 1]
  /\ cpc' = [cpc EXCEPT ![c] = IF retries[c] + 1 >= HEARTBEAT_MAX_RETRIES
                               THEN "gaveup" ELSE "send"]
  /\ UNCHANGED <<silence, up, acks, sockbuf, server>>

-------------------------------------------------------------------------------
(* The network. *)

\* A heartbeat reaches the server's socket, or finds its buffer full.
Arrive(c) ==
  /\ up[c] > 0
  /\ up' = [up EXCEPT ![c] = @ - 1]
  /\ sockbuf' = IF Len(sockbuf) < SocketBuffer
                THEN Append(sockbuf, [from |-> c, message |-> "HEARTBEAT"])
                ELSE sockbuf
  /\ UNCHANGED <<client, acks, server>>

Lose(c) ==
  /\ \/ up[c] > 0 /\ up' = [up EXCEPT ![c] = @ - 1] /\ UNCHANGED acks
     \/ acks[c] > 0 /\ acks' = [acks EXCEPT ![c] = @ - 1] /\ UNCHANGED up
  /\ UNCHANGED <<client, sockbuf, server>>

\* Some other datagram, perhaps an empty one.
StrayArrives ==
  /\ Len(sockbuf) < SocketBuffer
  /\ \E d \in Strays : sockbuf' = Append(sockbuf, d)
  /\ UNCHANGED <<client, up, acks, server>>

-------------------------------------------------------------------------------
(* The server. *)

\* Mutant: the read set is not looked at.
SelectNoCheck ==
  /\ spc = "select"
  /\ spc' \in {"read", "write"}
  /\ UNCHANGED <<client, up, acks, sockbuf, packet, addr, owed, unearned>>

\* select: the socket can always be written; if it can be read as well, the
\* pass reads.
Select ==
  /\ spc = "select"
  /\ spc' = IF sockbuf # <<>> THEN "read" ELSE "write"
  /\ UNCHANGED <<client, up, acks, sockbuf, packet, addr, owed, unearned>>

\* Mutant: an empty datagram leaves the old packet in place.
ReadKeepsPacket ==
  /\ spc = "read"
  /\ LET d == Head(sockbuf) IN
     /\ packet' = IF d.message = "EMPTY" THEN packet ELSE d.message
     /\ addr' = d.from
     /\ owed' = [c \in Clients |-> owed[c] \/ (d \in Heartbeats /\ d.from = c)]
  /\ sockbuf' = Tail(sockbuf)
  /\ spc' = "select"
  /\ UNCHANGED <<client, up, acks, unearned>>

\* The old packet is freed, answered or not, and the next one read; a
\* datagram of length 0 leaves no packet.
handle_client_heartbeat_read ==
  /\ spc = "read"
  /\ LET d == Head(sockbuf) IN
     /\ packet' = IF d.message = "EMPTY" THEN "none" ELSE d.message
     /\ addr' = d.from
     /\ owed' = [c \in Clients |-> owed[c] \/ (d \in Heartbeats /\ d.from = c)]
  /\ sockbuf' = Tail(sockbuf)
  /\ spc' = "select"
  /\ UNCHANGED <<client, up, acks, unearned>>

\* No packet can be allocated, or recvfrom fails: the old packet is gone, and the
\* datagram stays where it is.
ReadFails ==
  /\ spc = "read"
  /\ packet' = "none"
  /\ spc' = "select"
  /\ UNCHANGED <<client, up, acks, sockbuf, addr, owed, unearned>>

\* Mutant: the packet stays after it was answered.
SendAckKeepPacket(sent) ==
  /\ acks' = IF sent THEN [acks EXCEPT ![addr] = OneMore(@)] ELSE acks
  /\ unearned' = (unearned \/ (sent /\ ~owed[addr]))
  /\ owed' = [owed EXCEPT ![addr] = FALSE]
  /\ UNCHANGED packet

\* Answer the packet at hand; sent is FALSE if sendto fails.
SendAck(sent) ==
  /\ acks' = IF sent THEN [acks EXCEPT ![addr] = OneMore(@)] ELSE acks
  /\ unearned' = (unearned \/ (sent /\ ~owed[addr]))
  /\ owed' = [owed EXCEPT ![addr] = FALSE]
  /\ packet' = "none"

handle_client_heartbeat_write ==
  /\ spc = "write"
  /\ IF packet = "HEARTBEAT"
     THEN \E sent \in BOOLEAN : SendAck(sent)
     ELSE UNCHANGED <<acks, unearned, owed, packet>>
  /\ spc' = "select"
  /\ UNCHANGED <<client, up, sockbuf, addr>>

\* SIGINT, seen by the loop between two passes.
ServerStops ==
  /\ spc = "select"
  /\ spc' = "stopped"
  /\ UNCHANGED <<client, up, acks, sockbuf, packet, addr, owed, unearned>>

-------------------------------------------------------------------------------
Ended(c) == cpc[c] \in {"gaveup", "failed"}

Terminated == spc = "stopped" /\ (\A c \in Clients : Ended(c)) /\ UNCHANGED vars

ClientStep(c) == ClientSend(c) \/ ClientReceive(c) \/ ClientTimeout(c)

ServerStep ==
  Select \/ handle_client_heartbeat_read \/ handle_client_heartbeat_write

Next ==
  \/ \E c \in Clients : ClientStep(c) \/ ClientSendFails(c) \/ Arrive(c) \/ Lose(c)
  \/ StrayArrives \/ ServerStep \/ ReadFails \/ ServerStops \/ Terminated

Spec == Init /\ [][Next]_vars

\* Clients time out or receive, and the server goes on making passes until it
\* is stopped.  The network owes nothing.
FairSpec ==
  Spec /\ WF_vars(ServerStep) /\ \A c \in Clients : WF_vars(ClientStep(c))

-------------------------------------------------------------------------------
(* Properties. *)

TypeOK ==
  /\ cpc \in [Clients -> {"send", "wait", "gaveup", "failed"}]
  /\ retries \in [Clients -> 0 .. HEARTBEAT_MAX_RETRIES]
  /\ up   \in [Clients -> 0 .. MaxInFlight]
  /\ acks \in [Clients -> 0 .. MaxInFlight]
  /\ sockbuf \in Seq(Heartbeats \cup Strays) /\ Len(sockbuf) <= SocketBuffer
  /\ spc \in {"select", "read", "write", "stopped"}
  /\ packet \in {"none", "HEARTBEAT", "OTHER"}
  /\ addr \in Clients \cup Strangers \cup {NoOne}
  /\ silence \in [Clients -> Nat]
  /\ owed \in [Clients -> BOOLEAN] /\ unearned \in BOOLEAN

\* The server never reads from an empty socket, which would block the main
\* thread with every TCP client.
ReadHasData == spc = "read" => sockbuf # <<>>

\* The packet at hand and the address next to it belong together: it is an
\* unanswered heartbeat of that very client.  They are two fields, overwritten
\* by one handler and consumed by another.
PacketMatchesAddr == packet = "HEARTBEAT" => addr \in Clients /\ owed[addr]

\* Every ACK goes to a client whose heartbeat was read and not yet answered:
\* no client is answered twice, or for another client's heartbeat.
AcksEarned == ~unearned

\* A client gives up exactly when HEARTBEAT_MAX_RETRIES heartbeats in a row
\* brought no ACK, however many were answered, or answered late, before.
GivesUpWhenSilent ==
  \A c \in Clients :
    /\ silence[c] <= HEARTBEAT_MAX_RETRIES
    /\ cpc[c] = "gaveup" => silence[c] = HEARTBEAT_MAX_RETRIES

\* Why that is so: the counter follows the attempts without answer.
SilenceCounted ==
  \A c \in Clients :
    /\ cpc[c] = "send"   => retries[c] < HEARTBEAT_MAX_RETRIES /\ silence[c] = retries[c]
    /\ cpc[c] = "wait"   => retries[c] < HEARTBEAT_MAX_RETRIES /\ silence[c] = retries[c] + 1
    /\ cpc[c] = "gaveup" => silence[c] = HEARTBEAT_MAX_RETRIES
    /\ cpc[c] = "failed" => silence[c] <= HEARTBEAT_MAX_RETRIES

\* When the server is gone every client notices in the end, although answers
\* may still be under way and restart its count.
DeadServerNoticed == spc = "stopped" ~> \A c \in Clients : Ended(c)

\* Reading first does not starve answering: a heartbeat that was read, or one
\* that overtook it, is answered, unless a stranger's datagram takes its place or
\* a read that fails drops it, since clients without answer give up.
ServerAnswers == packet = "HEARTBEAT" ~> packet # "HEARTBEAT" \/ spc = "stopped"
===============================================================================
