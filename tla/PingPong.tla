------------------------------- MODULE PingPong -------------------------------
(***************************************************************************)
(* The simple TCP service: the clients of client.c in their default mode,  *)
(* and the part of handle_connections in server.c that serves them.        *)
(*                                                                         *)
(* A client waits for a greeting, sends PING, takes the next packet for    *)
(* the answer and closes.  The server makes passes: select takes a         *)
(* snapshot of the ready sockets, then each ready one gets one handler     *)
(* call, read if it was readable, write if it was only writable.  Between  *)
(* the snapshot and the call the client goes on: it sends, it closes.      *)
(*                                                                         *)
(* Handler calls are synchronous (module SyncCall) and packets arrive as a *)
(* whole.  A socket that a client closed is, for the server, in state fin, *)
(* or reset if the client left data unread.  Writing to the former is      *)
(* answered by a reset (state broken); so is a packet that was under way   *)
(* when the client closed (state crossed).  Writing to a socket that has   *)
(* seen the end of the stream and then a reset raises SIGPIPE, which the   *)
(* server does not handle.                                                 *)
(***************************************************************************)
EXTENDS Integers, Sequences, SequencesExt

CONSTANTS
  Clients,
  Listener,   \* the listening socket
  MaxDown     \* packets that fit between server and client

ASSUME PingPongAssumption == MaxDown \in Nat \ {0} /\ Listener \notin Clients

VARIABLES
  cpc,      \* control state of each client
  reply,    \* what a client took for the answer to its PING
  down,     \* packets under way to each client
  up,       \* packets the server has not read yet
  peer,     \* what the server's socket knows of the client
  entry,    \* the server has a clients[] entry and watches the socket
  packet,   \* client_data->packet, "none" for NULL
  spc,      \* the server: about to select, in a pass, stopped or killed
  readfds,  \* the snapshot: sockets readable and not served yet
  writefds  \* the snapshot: sockets only writable and not served yet

client == <<cpc, reply>>
pass   == <<spc, readfds, writefds>>
vars   == <<cpc, reply, down, up, peer, entry, packet,
             spc, readfds, writefds>>

Init ==
  /\ cpc    = [c \in Clients |-> "idle"]
  /\ reply  = [c \in Clients |-> "none"]
  /\ down   = [c \in Clients |-> <<>>]
  /\ up     = [c \in Clients |-> <<>>]
  /\ peer   = [c \in Clients |-> "none"]
  /\ entry  = [c \in Clients |-> FALSE]
  /\ packet = [c \in Clients |-> "none"]
  /\ spc = "select" /\ readfds = {} /\ writefds = {}

Serving == spc \in {"select", "pass"}

-------------------------------------------------------------------------------
(* A client. *)

\* setup_client: connect succeeds while somebody listens.
Connect(c) ==
  /\ cpc[c] = "idle" /\ Serving
  /\ cpc' = [cpc EXCEPT ![c] = "hello"]
  /\ peer' = [peer EXCEPT ![c] = "open"]
  /\ UNCHANGED <<reply, down, up, entry, packet, pass>>

ReceiveHello(c) ==
  /\ cpc[c] = "hello" /\ down[c] # <<>>
  /\ down' = [down EXCEPT ![c] = Tail(@)]
  /\ cpc' = [cpc EXCEPT ![c] = "ping"]
  /\ UNCHANGED <<reply, up, peer, entry, packet, pass>>

SendPing(c) ==
  /\ cpc[c] = "ping"
  /\ up' = [up EXCEPT ![c] = Append(@, "PING")]
  /\ cpc' = [cpc EXCEPT ![c] = "reply"]
  /\ UNCHANGED <<reply, down, peer, entry, packet, pass>>

\* close(sockfd) when the packets left were not read.  Those that had arrived
\* make it a reset, those still under way are answered by one.
Close(c, left) ==
  /\ cpc' = [cpc EXCEPT ![c] = "closed"]
  /\ \E p \in IF left = <<>> THEN {"fin"} ELSE {"reset", "crossed"} :
       peer' = [peer EXCEPT ![c] = IF @ = "open" THEN p ELSE @]
  /\ down' = [down EXCEPT ![c] = <<>>]

\* The second packet is the answer, whatever it says.
ReceiveReply(c) ==
  /\ cpc[c] = "reply" /\ down[c] # <<>>
  /\ reply' = [reply EXCEPT ![c] = Head(down[c])]
  /\ Close(c, Tail(down[c]))
  /\ UNCHANGED <<up, entry, packet, pass>>

\* An error, the end of the stream, or the user ends the client early.
ClientLeaves(c) ==
  /\ cpc[c] \in {"hello", "ping", "reply"}
  /\ Close(c, down[c])
  /\ UNCHANGED <<reply, up, entry, packet, pass>>

-------------------------------------------------------------------------------
(* The server. *)

Readable(c) == up[c] # <<>> \/ peer[c] # "open"
Writable(c) == Len(down[c]) < MaxDown \/ peer[c] # "open"
Watched     == {c \in Clients : entry[c]}
Pending     == {c \in Clients : cpc[c] # "idle" /\ ~entry[c] /\ peer[c] # "gone"}

\* Mutant: sockets that can be written are written first.
SelectWriteFirst ==
  /\ spc = "select"
  /\ writefds' = {c \in Watched : Writable(c)}
  /\ readfds' = {c \in Watched : Readable(c) /\ ~Writable(c)}
                \cup (IF Pending # {} THEN {Listener} ELSE {})
  /\ spc' = "pass"
  /\ UNCHANGED <<client, down, up, peer, entry, packet>>

\* select, and the order in which a pass looks at the two sets.
Select ==
  /\ spc = "select"
  /\ readfds' = {c \in Watched : Readable(c)}
                \cup (IF Pending # {} THEN {Listener} ELSE {})
  /\ writefds' = {c \in Watched : Writable(c) /\ ~Readable(c)}
  /\ spc' = "pass"
  /\ UNCHANGED <<client, down, up, peer, entry, packet>>

\* The listening socket is readable: one connection is accepted, be the client
\* still there or not.
Accept ==
  /\ spc = "pass" /\ Listener \in readfds
  /\ readfds' = readfds \ {Listener}
  /\ \E c \in Pending : /\ entry' = [entry EXCEPT ![c] = TRUE]
                        /\ packet' = [packet EXCEPT ![c] = "none"]
  /\ UNCHANGED <<client, down, up, peer, spc, writefds>>

\* free_client_tcp_data and FD_CLR.
Forget(c) ==
  /\ entry' = [entry EXCEPT ![c] = FALSE]
  /\ packet' = [packet EXCEPT ![c] = "none"]
  /\ peer' = [peer EXCEPT ![c] = "gone"]
  /\ up' = [up EXCEPT ![c] = <<>>]

\* Mutant: the end of the stream is taken for an empty packet.
ReadIgnoresEnd(c) ==
  /\ spc = "pass" /\ c \in readfds
  /\ readfds' = readfds \ {c}
  /\ up' = [up EXCEPT ![c] = IF @ = <<>> THEN @ ELSE Tail(@)]
  /\ packet' = [packet EXCEPT ![c] = IF up[c] = <<>> THEN "none" ELSE Head(up[c])]
  /\ UNCHANGED <<client, down, peer, entry, spc, writefds>>

\* Read one packet; at the end of the stream, or on an error, drop the client.
handle_client_simple_read(c) ==
  /\ spc = "pass" /\ c \in readfds
  /\ readfds' = readfds \ {c}
  /\ IF up[c] # <<>>
     THEN /\ up' = [up EXCEPT ![c] = Tail(@)]
          /\ packet' = [packet EXCEPT ![c] = Head(up[c])]
          /\ UNCHANGED <<entry, peer>>
     ELSE Forget(c)
  /\ UNCHANGED <<client, down, spc, writefds>>

\* Mutant: the packet read stays in place of the packet sent.
SendKeepPacket(c, message) ==
  /\ down' = [down EXCEPT ![c] = IF peer[c] = "open" THEN Append(@, message) ELSE @]
  /\ peer' = [peer EXCEPT ![c] = IF @ = "fin" THEN "broken" ELSE @]
  /\ UNCHANGED <<packet, entry, up, spc>>

\* send on a socket in each of its states; an error drops the client.
Send(c, message) ==
  /\ IF peer[c] = "reset"
     THEN Forget(c) /\ UNCHANGED down
     ELSE /\ down' = [down EXCEPT ![c] = IF peer[c] = "open" THEN Append(@, message) ELSE @]
          /\ peer' = [peer EXCEPT ![c] = IF @ = "fin" THEN "broken" ELSE @]
          /\ packet' = [packet EXCEPT ![c] = message]
          /\ UNCHANGED <<entry, up>>
  /\ spc' = IF peer[c] \in {"broken", "crossed"} THEN "killed" ELSE spc

\* Mutant: nothing to say without a PING.
WriteOnlyPong(c) ==
  /\ spc = "pass" /\ c \in writefds
  /\ writefds' = writefds \ {c}
  /\ IF packet[c] = "PING" THEN Send(c, "PONG")
     ELSE UNCHANGED <<down, up, peer, entry, packet, spc>>
  /\ UNCHANGED <<client, readfds>>

\* PONG if the last packet was a PING, the greeting otherwise.
handle_client_simple_write(c) ==
  /\ spc = "pass" /\ c \in writefds
  /\ writefds' = writefds \ {c}
  /\ Send(c, IF packet[c] = "PING" THEN "PONG" ELSE "HOLA")
  /\ UNCHANGED <<client, readfds>>

\* A handler cannot allocate what it needs: the client is dropped.
HandlerFails(c) ==
  /\ spc = "pass" /\ c \in readfds \cup writefds
  /\ readfds' = readfds \ {c} /\ writefds' = writefds \ {c}
  /\ Forget(c)
  /\ UNCHANGED <<client, down, spc>>

PassEnds ==
  /\ spc = "pass" /\ readfds = {} /\ writefds = {}
  /\ spc' = "select"
  /\ UNCHANGED <<client, down, up, peer, entry, packet, readfds, writefds>>

\* SIGINT between passes: every client is dropped.
ServerStops ==
  /\ spc = "select"
  /\ spc' = "stopped"
  /\ entry' = [c \in Clients |-> FALSE]
  /\ packet' = [c \in Clients |-> "none"]
  /\ peer' = [c \in Clients |-> IF entry[c] THEN "gone" ELSE peer[c]]
  /\ UNCHANGED <<client, down, up, readfds, writefds>>

-------------------------------------------------------------------------------
ClientStep(c) == ReceiveHello(c) \/ SendPing(c) \/ ReceiveReply(c)

ServerStep ==
  \/ Select \/ Accept \/ PassEnds
  \/ \E c \in Clients : handle_client_simple_read(c) \/ handle_client_simple_write(c)

Terminated ==
  /\ spc \in {"stopped", "killed"} /\ \A c \in Clients : cpc[c] \in {"idle", "closed"}
  /\ UNCHANGED vars

Next ==
  \/ \E c \in Clients : Connect(c) \/ ClientStep(c) \/ ClientLeaves(c) \/ HandlerFails(c)
  \/ ServerStep \/ ServerStops \/ Terminated

Spec == Init /\ [][Next]_vars

\* The server goes on making passes; a client goes on when it can, and sees
\* the end of the stream when the server is gone, or has dropped it.
Dropped(c) == ~Serving \/ peer[c] = "gone"

FairSpec ==
  /\ Spec /\ WF_vars(ServerStep)
  /\ \A c \in Clients : WF_vars(ClientStep(c)) /\ WF_vars(Dropped(c) /\ ClientLeaves(c))

-------------------------------------------------------------------------------
(* Properties. *)

Messages == {"HOLA", "PONG"}

TypeOK ==
  /\ cpc \in [Clients -> {"idle", "hello", "ping", "reply", "closed"}]
  /\ reply \in [Clients -> Messages \cup {"none"}]
  /\ down \in [Clients -> Seq(Messages)] /\ \A c \in Clients : Len(down[c]) <= MaxDown
  /\ up \in [Clients -> Seq({"PING"})]
  /\ peer \in [Clients -> {"none", "open", "fin", "reset", "broken", "crossed", "gone"}]
  /\ entry \in [Clients -> BOOLEAN]
  /\ packet \in [Clients -> Messages \cup {"none", "PING"}]
  /\ spc \in {"select", "pass", "stopped", "killed"}
  /\ readfds \in SUBSET (Clients \cup {Listener})
  /\ writefds \in SUBSET Clients

\* SIGPIPE does not kill the server because it writes to a client that closed
\* after the snapshot: the next pass reads, and drops it, before it is written
\* to again.  Only a packet that crosses the close on the network, and the
\* close in turn the snapshot, leads to it.
KilledOnlyByCrossing == spc = "killed" => \E c \in Clients : peer[c] = "crossed"

\* A handler is only ever called for a client the server still has: the
\* snapshot outlives no clients[] entry it refers to.
SnapshotIsValid == readfds \ {Listener} \subseteq Watched /\ writefds \subseteq Watched

Pongs(c) == Cardinality({i \in DOMAIN down[c] : down[c][i] = "PONG"})
            + (IF reply[c] = "PONG" THEN 1 ELSE 0)

\* One PING is answered by at most one PONG, and no PONG comes unasked, though
\* the server writes to a socket on every pass.
OnePongPerPing ==
  \A c \in Clients :
    LET asked == IF cpc[c] \in {"reply", "closed"} THEN 1 ELSE 0 IN
    /\ Pongs(c) + Len(up[c]) + (IF packet[c] = "PING" THEN 1 ELSE 0) <= asked

\* Whoever connects and leaves is forgotten by the server, its socket closed.
ClientsAreForgotten ==
  \A c \in Clients : cpc[c] = "closed" ~> ~Serving \/ (~entry[c] /\ peer[c] = "gone")

\* A client that stays comes to its end: the greeting and an answer reach it,
\* or the end of the stream.
ClientsFinish == \A c \in Clients : cpc[c] # "idle" ~> cpc[c] = "closed"

\* What a client takes for the answer to its PING is a PONG.
PingGetsPong == \A c \in Clients : reply[c] # "none" => reply[c] = "PONG"
===============================================================================
