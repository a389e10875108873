-------------------------------- MODULE Framing --------------------------------
(***************************************************************************)
(* Packets over a TCP stream: send_simple_packet and recv_simple_packet of *)
(* src/shared/common.c, with the loops of sendall and recvall below them.  *)
(* One process sends packets and then closes, or is stopped in the middle; *)
(* the other receives until a result is not positive, and closes.  Every   *)
(* call of send or recv is a step and moves as many bytes as it likes.     *)
(*                                                                         *)
(* A packet is its data.  unpack stores a long into an int32_t and recvall *)
(* a zero byte behind length_buffer; both land in bytes that the compiled  *)
(* recv_simple_packet does not read again.                                 *)
(***************************************************************************)
EXTENDS Pack, FiniteSets

CONSTANTS
  Packets,     \* the strings that are sent, none of them empty
  MaxPackets,  \* bound: how many packets are sent
  Room         \* how many bytes the kernels keep between the two

ASSUME FramingAssumption ==
  /\ \A p \in Packets : /\ p \in Seq(Byte) /\ p # <<>>
                        /\ Len(p) < Half * Base * Base * Base
  /\ MaxPackets \in Nat /\ Room \in Nat \ {0}

VARIABLES
  spc,        \* sender: idle, send, or over
  out,        \* what sendall has still to send of its buffer
  sending,    \* the packet that is being sent
  wire,       \* bytes under way
  fin, reset, \* the sender has closed; the connection failed
  rpc,        \* receiver: length, data, or how it came to its end
  buffer,     \* what recvall received so far
  size,       \* packet->length
  sent, got   \* history: the packets sent and received

sender   == <<spc, out, sending, sent>>
receiver == <<rpc, buffer, size, got>>
stream   == <<wire, fin, reset>>
vars == <<spc, out, sending, wire, fin, reset, rpc, buffer, size, sent, got>>

LengthFormat == <<[code |-> "l", max |-> 0]>>
LengthSize   == Len(pack(LengthFormat, <<0>>))   \* sizeof(int32_t)

Init ==
  /\ spc = "idle" /\ out = <<>> /\ sending = <<>> /\ sent = <<>>
  /\ wire = <<>> /\ fin = FALSE /\ reset = FALSE
  /\ rpc = "length" /\ buffer = <<>> /\ size = 0 /\ got = <<>>

SenderOver   == spc = "over"
ReceiverOver == rpc \in {"ended", "failed"}

-------------------------------------------------------------------------------
(* The sender. *)

\* The buffer of send_simple_packet: the length, then the data without its
\* terminator.
serialize(p) == pack(LengthFormat, <<Len(p)>>) \o p

send_simple_packet(p) ==
  /\ spc = "idle" /\ Len(sent) < MaxPackets
  /\ spc' = "send" /\ out' = serialize(p) /\ sending' = p
  /\ UNCHANGED <<sent, stream, receiver>>

\* The buffer cannot be allocated: nothing is sent, and the caller closes.
SendNoMemory ==
  /\ spc = "idle"
  /\ spc' = "over" /\ fin' = TRUE
  /\ UNCHANGED <<out, sending, sent, wire, reset, receiver>>

\* Mutant: a second call of send begins at the start of the buffer again.
SendSomeFromStart(n) ==
  /\ spc = "send" /\ ~reset /\ n \in 1 .. Len(out) /\ Len(wire) + n <= Room
  /\ wire' = wire \o SubSeq(out, 1, n)
  /\ out' = SubSeq(out, 1, Len(out) - n)
  /\ IF n = Len(out) THEN spc' = "idle" /\ sent' = Append(sent, sending)
                     ELSE UNCHANGED <<spc, sent>>
  /\ UNCHANGED <<sending, fin, reset, receiver>>

\* One call of send in sendall.  The packet is sent when its last byte is.
SendSome(n) ==
  /\ spc = "send" /\ ~reset /\ n \in 1 .. Len(out) /\ Len(wire) + n <= Room
  /\ wire' = wire \o SubSeq(out, 1, n)
  /\ out' = SubSeq(out, n + 1, Len(out))
  /\ IF n = Len(out) THEN spc' = "idle" /\ sent' = Append(sent, sending)
                     ELSE UNCHANGED <<spc, sent>>
  /\ UNCHANGED <<sending, fin, reset, receiver>>

\* send returns an error once the connection failed or the receiver closed.
SendError ==
  /\ spc = "send" /\ (reset \/ ReceiverOver)
  /\ spc' = "over" /\ fin' = TRUE
  /\ UNCHANGED <<out, sending, sent, wire, reset, receiver>>

\* The process closes between two packets, or ends in the middle of one.
SenderStops ==
  /\ spc \in {"idle", "send"}
  /\ spc' = "over" /\ fin' = TRUE
  /\ UNCHANGED <<out, sending, sent, wire, reset, receiver>>

\* The connection fails: what was under way is lost.
Reset ==
  /\ ~reset /\ ~ReceiverOver
  /\ reset' = TRUE /\ wire' = <<>>
  /\ UNCHANGED <<fin, sender, receiver>>

-------------------------------------------------------------------------------
(* The receiver. *)

\* How many bytes recvall was asked for.
Asked == IF rpc = "length" THEN LengthSize ELSE size

Receiving == rpc \in {"length", "data"} /\ Len(buffer) < Asked

\* The loop of recvall is over: the buffer is full, or the stream ended.
RecvallOver == rpc \in {"length", "data"} /\ (Len(buffer) = Asked \/ (fin /\ wire = <<>> /\ ~reset))

\* Mutant: recvall is satisfied with what the first recv brings.
RecvSomeOnce(n) ==
  /\ Receiving /\ ~reset /\ buffer = <<>>
  /\ n \in 1 .. Asked - Len(buffer) /\ n <= Len(wire)
  /\ buffer' = SubSeq(wire, 1, n) \o [i \in 1 .. Asked - n |-> 0]
  /\ wire' = SubSeq(wire, n + 1, Len(wire))
  /\ UNCHANGED <<sender, fin, reset, rpc, size, got>>

\* One call of recv in recvall: at most bytes_left bytes, behind the others.
RecvSome(n) ==
  /\ Receiving /\ ~reset
  /\ n \in 1 .. Asked - Len(buffer) /\ n <= Len(wire)
  /\ buffer' = buffer \o SubSeq(wire, 1, n)
  /\ wire' = SubSeq(wire, n + 1, Len(wire))
  /\ UNCHANGED <<sender, fin, reset, rpc, size, got>>

\* recv returns an error.
RecvError ==
  /\ Receiving /\ reset
  /\ rpc' = "failed"
  /\ UNCHANGED <<sender, stream, buffer, size, got>>

\* The length is there: convert it and allocate the packet, which fails for a
\* length that is not positive, and may fail for any other.
LengthReceived ==
  /\ rpc = "length" /\ Len(buffer) = LengthSize
  /\ size' = unpack(buffer, LengthFormat)[1]
  /\ buffer' = <<>>
  /\ rpc' \in IF size' <= 0 THEN {"failed"} ELSE {"data", "failed"}
  /\ UNCHANGED <<sender, stream, got>>

\* The data is there: the caller gets the packet, handles it, and calls again.
DataReceived ==
  /\ rpc = "data" /\ Len(buffer) = size
  /\ got' = Append(got, buffer)
  /\ rpc' = "length" /\ buffer' = <<>>
  /\ UNCHANGED <<sender, stream, size>>

\* recv returns 0 first: the result is 0, or -1 if a part had arrived; either
\* way the caller closes.
StreamEnded ==
  /\ RecvallOver /\ Len(buffer) < Asked
  /\ rpc' = "ended"
  /\ UNCHANGED <<sender, stream, buffer, size, got>>

-------------------------------------------------------------------------------
Send ==
  \/ \E p \in Packets : send_simple_packet(p)
  \/ SendError
  \/ \E n \in 1 .. Len(out) : SendSome(n)

Receive ==
  \/ \E n \in 1 .. Len(wire) : RecvSome(n)
  \/ RecvError \/ LengthReceived \/ DataReceived \/ StreamEnded

Terminated == SenderOver /\ ReceiverOver /\ UNCHANGED vars

Next == Send \/ SendNoMemory \/ SenderStops \/ Reset \/ Receive \/ Terminated

Spec == Init /\ [][Next]_vars

\* The receiver's calls return when there is something to return.  The sender
\* may pause anywhere.
FairSpec == Spec /\ WF_vars(Receive)

-------------------------------------------------------------------------------
(* Properties. *)

TypeOK ==
  /\ spc \in {"idle", "send", "over"}
  /\ out \in Seq(Byte) /\ sending \in Seq(Byte) /\ wire \in Seq(Byte)
  /\ buffer \in Seq(Byte)
  /\ fin \in BOOLEAN /\ reset \in BOOLEAN
  /\ rpc \in {"length", "data", "ended", "failed"}
  /\ size \in Int
  /\ sent \in Seq(Packets) /\ Len(sent) <= MaxPackets

\* The packets of which a byte is in the stream, or in the buffer of sendall.
Begun == IF out = <<>> THEN sent ELSE Append(sent, sending)

\* The bytes of packets, one behind the other.
Stream(ps) ==
  LET put[i \in 0 .. Len(ps)] == IF i = 0 THEN <<>> ELSE put[i - 1] \o serialize(ps[i])
  IN put[Len(ps)]

Reading == rpc \in {"length", "data"}

\* What the receiver has of its next packet.
Received == IF rpc = "data" THEN pack(LengthFormat, <<size>>) \o buffer ELSE buffer

\* However the bytes are cut: those of the packets handed over, of the packet
\* being read, under way and in sendall's buffer are, in this order, the bytes
\* of whole packets.  After the connection failed those that arrived are still
\* the first of them.  And what is read as data was announced as data: the
\* length recv_simple_packet allocates for is that of the packet it reads.
InStep ==
  Reading =>
    /\ ~reset => ((Stream(got) \o Received) \o wire) \o out = Stream(Begun)
    /\ \E n \in 0 .. Len(Stream(Begun)) : Stream(got) \o Received = SubSeq(Stream(Begun), 1, n)
    /\ rpc = "data" => Len(got) < Len(Begun) /\ size = Len(Begun[Len(got) + 1])

\* recv_simple_packet hands over what send_simple_packet was given: packets
\* come out whole, once and in order; an end without an error means that none
\* is missing, and whatever was sent whole is received unless the connection
\* or an allocation fails.
Queue == INSTANCE PacketQueue WITH
  written   <- sent,
  delivered <- got,
  writer    <- IF SenderOver THEN "stopped" ELSE "writing",
  reader    <- IF ReceiverOver THEN rpc ELSE "reading"

ImplementsPacketQueue == Queue!FairSpec
===============================================================================
