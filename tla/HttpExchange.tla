----------------------------- MODULE HttpExchange ------------------------------
(***************************************************************************)
(* One request and its response, as messages: client.c in its HTTP mode,   *)
(* the functions of src/shared/http.c that build, serialise, send, receive *)
(* and parse them, and what handle_client_http_write puts into a response. *)
(* Both sides read a head up to the blank line with calls of recv that may *)
(* bring a part of the body too, and then the rest of the body.            *)
(*                                                                         *)
(* A message is a sequence of tokens: a start line, headers, the blank     *)
(* line, and the bytes of the body.  Each side is one thread, and a call   *)
(* of send or recv is a step.  Allocations that fail are modelled where    *)
(* the code looks at the result; where it does not, the program crashes.   *)
(***************************************************************************)
EXTENDS Headers, FiniteSets

CONSTANTS
  MaxBody,              \* bound: the size of a resource
  Room,                 \* what the kernels keep in each direction
  DEFAULT_BUFFER_SIZE,  \* the size of the buffer a head is read into
  NoFile

ASSUME ExchangeAssumption ==
  /\ MaxBody \in Nat /\ Room \in Nat \ {0}
  /\ DEFAULT_BUFFER_SIZE \in Nat /\ DEFAULT_BUFFER_SIZE >= 5   \* any head

\* What the resource of a request is to the server.
Kinds == {"file", "listing", "missing", "bad"}
Sides == {"client", "server"}
Peer(side) == IF side = "client" THEN "server" ELSE "client"

VARIABLES
  kind, colon, resource,  \* what is asked for, if its name has a colon, its content
  pc,              \* where each side is
  out,             \* what sendall has still to send
  wire,            \* what is under way to a side
  fin, reset,      \* the sides that closed, and those that recv will fail on
  buffer,          \* what read_until_double_end_line has read
  message,         \* the message that was parsed, its body as far as it is read
  extra,           \* extra_data_length
  file             \* what the client saved

vars == <<kind, colon, resource, pc, out, wire, fin, reset, buffer, message, extra, file>>
asked  == <<kind, colon, resource>>
stream == <<wire, fin, reset>>

\* A line, or a byte of a body; value is the number that is told apart.
Token(type, key, value, has) == [type |-> type, key |-> key, value |-> value, colon |-> has]
Start(text, has)   == Token("start", text, 0, has)
Header(key, value) == Token("header", key, value, TRUE)
Blank   == Token("blank", "", 0, FALSE)
Data(i) == Token("data", "", i, FALSE)        \* the i-th byte of a resource
Garbage == Token("garbage", "", 0, FALSE)     \* memory nobody wrote

Tokens == [type  : {"start", "header", "blank", "data", "garbage"},
           key   : Kinds \cup {"200", "400", "404", "", "Host", "Content-Type",
                               "Content-Length", "Connection"},
           value : 0 .. MaxBody,
           colon : BOOLEAN]

\* The null pointers of a slot are no header.
ASSUME UnsetAssumption == Unset \notin Tokens

None == [start |-> Garbage, headers |-> create_headers(0), body_length |-> 0, body |-> <<>>]

Init ==
  /\ kind \in Kinds
  /\ colon \in IF kind = "listing" THEN {FALSE} ELSE BOOLEAN   \* its name is "/"
  /\ \E n \in 0 .. MaxBody : resource = [i \in 1 .. n |-> Data(i)]
  /\ kind \in {"missing", "bad"} => resource = <<>>
  /\ pc = [side \in Sides |-> IF side = "client" THEN "build" ELSE "head"]
  /\ out = [side \in Sides |-> <<>>]
  /\ wire = [side \in Sides |-> <<>>]
  /\ fin = {} /\ reset = {}
  /\ buffer = [side \in Sides |-> <<>>]
  /\ message = [side \in Sides |-> None]
  /\ extra = [side \in Sides |-> 0]
  /\ file = NoFile

Closed == {side \in Sides : pc[side] \in {"done", "failed"}}

\* close: the peer finds the end behind what is under way; if something is left
\* that was not read, it finds a reset.
Close(side) ==
  /\ fin' = fin \cup {side}
  /\ reset' = IF wire[side] # <<>> THEN reset \cup {Peer(side)} ELSE reset
  /\ wire' = IF wire[side] # <<>> THEN [s \in Sides |-> <<>>] ELSE wire

Leave(side, result) ==
  /\ pc' = [pc EXCEPT ![side] = result]
  /\ Close(side)

-------------------------------------------------------------------------------
(* Building messages. *)

\* The uri stands in the request line, with its colon if it has one.
create_http_request(uri, headers) ==
  [start |-> Start(uri, colon), headers |-> headers, body_length |-> 0, body |-> <<>>]

\* The handler adds the body afterwards.
create_http_response(status, headers, body) ==
  [start |-> Start(status, FALSE), headers |-> headers, body_length |-> Len(body), body |-> body]

\* Start line, headers, blank line.
serialize_http_request_header(request) ==
  <<request.start>> \o serialize_headers(request.headers) \o <<Blank>>

\* Mutant: the size of a response counts two bytes too many.
serialize_http_responseTwoMore(response) ==
  <<response.start>> \o serialize_headers(response.headers) \o <<Blank>>
  \o response.body \o <<Garbage, Garbage>>

\* The buffer is a byte longer than what is written into it, since the three
\* digits of a status count as sizeof(int), and that byte is sent too.
serialize_http_response(response) ==
  <<response.start>> \o serialize_headers(response.headers) \o <<Blank>>
  \o response.body \o <<Garbage>>

RequestHeaders == add_header(create_headers(INITIAL_HEADER_COUNT), Header("Host", 0))

\* Mutant: the length is that of the message.
ResponseHeadersLengthOff(body) ==
  add_headers(create_headers(INITIAL_HEADER_COUNT),
              << Header("Content-Type", 0), Header("Content-Length", Len(body) + 1),
                 Header("Connection", 0) >>)

ResponseHeaders(body) ==
  add_headers(create_headers(INITIAL_HEADER_COUNT),
              << Header("Content-Type", 0), Header("Content-Length", Len(body)),
                 Header("Connection", 0) >>)

\* The client builds its request and starts to send it, or the path or one of
\* the buffers cannot be allocated.
SendRequest ==
  /\ pc["client"] = "build"
  /\ \/ /\ pc' = [pc EXCEPT !["client"] = "send"]
        /\ out' = [out EXCEPT !["client"] =
             serialize_http_request_header(create_http_request(kind, RequestHeaders))]
        /\ UNCHANGED stream
     \/ Leave("client", "failed") /\ UNCHANGED out
  /\ UNCHANGED <<asked, buffer, message, extra, file>>

Status(uri) == CASE uri \in {"file", "listing"} -> "200"
                 [] uri = "missing" -> "404"
                 [] uri = "bad" -> "400"

\* A file and the listing have headers and a body, the other responses neither.
Response(uri) ==
  IF Status(uri) = "200"
  THEN create_http_response("200", ResponseHeaders(resource), resource)
  ELSE create_http_response(Status(uri), create_headers(0), <<>>)

\* The write handler makes the response and starts to send it.  If the body
\* cannot be allocated or read, or the buffer not be allocated, the loop closes
\* the client.
Respond ==
  /\ pc["server"] = "got"
  /\ \/ /\ pc' = [pc EXCEPT !["server"] = "send"]
        /\ out' = [out EXCEPT !["server"] =
             serialize_http_response(Response(message["server"].start.key))]
        /\ UNCHANGED stream
     \/ Leave("server", "failed") /\ UNCHANGED out
  /\ UNCHANGED <<asked, buffer, message, extra, file>>

-------------------------------------------------------------------------------
(* Sending. *)

\* A call of send in sendall.  Then the side waits for the next message; its
\* buffer is a new one.
SendSome(side, n) ==
  /\ pc[side] = "send" /\ side \notin reset /\ n \in 1 .. Len(out[side])
  /\ Len(wire[Peer(side)]) + n <= Room
  /\ wire' = [wire EXCEPT ![Peer(side)] = @ \o SubSeq(out[side], 1, n)]
  /\ out' = [out EXCEPT ![side] = SubSeq(@, n + 1, Len(@))]
  /\ IF n = Len(out[side])
     THEN /\ pc' = [pc EXCEPT ![side] = "head"]
          /\ buffer' = [buffer EXCEPT ![side] = <<>>]
          /\ message' = [message EXCEPT ![side] = None]
     ELSE UNCHANGED <<pc, buffer, message>>
  /\ UNCHANGED <<asked, fin, reset, extra, file>>

SendError(side) ==
  /\ pc[side] = "send" /\ (side \in reset \/ Peer(side) \in fin)
  /\ Leave(side, "failed")
  /\ UNCHANGED <<asked, out, buffer, message, extra, file>>

-------------------------------------------------------------------------------
(* Receiving. *)

BlankAt(tokens) == {i \in DOMAIN tokens : tokens[i] = Blank}

deserialize_http_request_header(lines) ==
  [start |-> lines[1], headers |-> deserialize_headers(lines)]

deserialize_http_response_header(lines) ==
  [start |-> lines[1], headers |-> deserialize_headers(lines)]

Deserialized(side, lines) ==
  IF side = "server" THEN deserialize_http_request_header(lines)
  ELSE deserialize_http_response_header(lines)

\* Mutant: what came behind the blank line is forgotten.
ReceivedNoExtra(head, behind) ==
  [start |-> head.start, headers |-> head.headers, body |-> <<>>,
   body_length |-> find_header_value(head.headers, "Content-Length", 0)]

\* What came behind the blank line is the front of the body, if there is to be
\* one.
Received(head, behind) ==
  LET length == find_header_value(head.headers, "Content-Length", 0) IN
  [start |-> head.start, headers |-> head.headers, body_length |-> length,
   body |-> IF length > 0 THEN behind ELSE <<>>]

\* A call of recv in read_until_double_end_line, which returns when it has the
\* blank line.
RecvHead(side, n) ==
  /\ pc[side] = "head" /\ side \notin reset /\ BlankAt(buffer[side]) = {}
  /\ n \in 1 .. Len(wire[side]) /\ Len(buffer[side]) + n <= DEFAULT_BUFFER_SIZE
  /\ buffer' = [buffer EXCEPT ![side] = @ \o SubSeq(wire[side], 1, n)]
  /\ wire' = [wire EXCEPT ![side] = SubSeq(@, n + 1, Len(@))]
  /\ UNCHANGED <<asked, pc, out, fin, reset, message, extra, file>>

\* The head is parsed, and the body allocated, unless it is empty.
ReceivedHead(side) ==
  /\ pc[side] = "head" /\ BlankAt(buffer[side]) # {}
  /\ \E end \in BlankAt(buffer[side]) :
       /\ \A i \in BlankAt(buffer[side]) : end <= i
       /\ message' = [message EXCEPT ![side] =
                         Received(Deserialized(side, SubSeq(buffer[side], 1, end - 1)),
                                  SubSeq(buffer[side], end + 1, Len(buffer[side])))]
       /\ extra' = [extra EXCEPT ![side] = Len(buffer[side]) - end]
  /\ pc' = [pc EXCEPT ![side] = "body"]
  /\ UNCHANGED <<asked, out, stream, buffer, file>>

\* The buffer of the head, or the body, cannot be allocated.
ReceiveNoMemory(side) ==
  /\ \/ pc[side] = "head" /\ buffer[side] = <<>>
     \/ /\ pc[side] = "body" /\ message[side].body_length > 0
        /\ Len(message[side].body) = extra[side]
  /\ Leave(side, "failed")
  /\ UNCHANGED <<asked, out, buffer, message, extra, file>>

\* A call of recv in recvall, for the rest of the body.
RecvBody(side, n) ==
  /\ pc[side] = "body" /\ side \notin reset
  /\ n \in 1 .. Len(wire[side])
  /\ n <= message[side].body_length - Len(message[side].body)
  /\ message' = [message EXCEPT ![side].body = @ \o SubSeq(wire[side], 1, n)]
  /\ wire' = [wire EXCEPT ![side] = SubSeq(@, n + 1, Len(@))]
  /\ UNCHANGED <<asked, pc, out, fin, reset, buffer, extra, file>>

\* Nothing of the body is left to read, or was from the beginning.
ReceivedBody(side) ==
  /\ pc[side] = "body"
  /\ Len(message[side].body) >= message[side].body_length
  /\ pc' = [pc EXCEPT ![side] = "got"]
  /\ UNCHANGED <<asked, out, stream, buffer, message, extra, file>>

AtEnd(side) == Peer(side) \in fin /\ wire[side] = <<>> /\ side \notin reset

\* recv returns 0 in the head: there is no message.
HeadEnded(side) ==
  /\ pc[side] = "head" /\ BlankAt(buffer[side]) = {} /\ AtEnd(side)
  /\ Leave(side, "failed")
  /\ UNCHANGED <<asked, out, buffer, message, extra, file>>

Padded(body, length) == [i \in 1 .. length |-> IF i <= Len(body) THEN body[i] ELSE Garbage]

\* Mutant: recvall calls recv again after a 0 if it has a part.
BodyEndedAgain(side) ==
  /\ pc[side] = "body" /\ AtEnd(side)
  /\ Len(message[side].body) < message[side].body_length
  /\ Len(message[side].body) = extra[side]
  /\ Leave(side, "failed")
  /\ UNCHANGED <<asked, out, buffer, message, extra, file>>

\* recv returns 0 in the body: if recvall got nothing at all there is no message;
\* if it got a part, that is taken for the whole, and the rest is what was in
\* the memory.
BodyEnded(side) ==
  /\ pc[side] = "body" /\ AtEnd(side)
  /\ Len(message[side].body) < message[side].body_length
  /\ IF Len(message[side].body) = extra[side]
     THEN Leave(side, "failed") /\ UNCHANGED message
     ELSE /\ message' = [message EXCEPT ![side].body = Padded(@, message[side].body_length)]
          /\ pc' = [pc EXCEPT ![side] = "got"]
          /\ UNCHANGED stream
  /\ UNCHANGED <<asked, out, buffer, extra, file>>

RecvError(side) ==
  /\ \/ pc[side] = "head" /\ BlankAt(buffer[side]) = {}
     \/ pc[side] = "body" /\ Len(message[side].body) < message[side].body_length
  /\ side \in reset
  /\ Leave(side, "failed")
  /\ UNCHANGED <<asked, out, buffer, message, extra, file>>

-------------------------------------------------------------------------------
(* The client's end. *)

\* fwrite of atoi(content_length) bytes of the body; fopen may fail.
SaveFile ==
  /\ pc["client"] = "got"
  /\ LET response == message["client"]
         length == find_header_value(response.headers, "Content-Length", 0) IN
     file' \in IF response.headers.slot # <<>> /\ response.start.key = "200" /\ kind = "file"
               THEN {NoFile, SubSeq(response.body, 1, length)} ELSE {NoFile}
  /\ Leave("client", "done")
  /\ UNCHANGED <<asked, out, buffer, message, extra>>

\* A process is ended from outside, at any moment.
Stops(side) ==
  /\ side \notin Closed
  /\ Leave(side, "failed")
  /\ UNCHANGED <<asked, out, buffer, message, extra, file>>

-------------------------------------------------------------------------------
Step(side) ==
  \/ \E n \in 1 .. Len(out[side]) : SendSome(side, n)
  \/ \E n \in 1 .. Len(wire[side]) : RecvHead(side, n) \/ RecvBody(side, n)
  \/ ReceivedHead(side) \/ ReceivedBody(side)
  \/ SendError(side) \/ HeadEnded(side) \/ BodyEnded(side) \/ RecvError(side)

Client == SendRequest \/ SaveFile \/ Step("client")
Server == Respond \/ Step("server")

Terminated == Closed = Sides /\ UNCHANGED vars

Next ==
  \/ Client \/ Server \/ Terminated
  \/ \E side \in Sides : ReceiveNoMemory(side) \/ Stops(side)

Spec == Init /\ [][Next]_vars

FairSpec == Spec /\ WF_vars(Client) /\ WF_vars(Server)

-------------------------------------------------------------------------------
(* Properties. *)

TypeOK ==
  /\ kind \in Kinds /\ colon \in BOOLEAN
  /\ pc \in [Sides -> {"build", "send", "head", "body", "got", "done", "failed"}]
  /\ out \in [Sides -> Seq(Tokens)]
  /\ wire \in [Sides -> Seq(Tokens)]
  /\ fin \subseteq Sides /\ reset \subseteq Sides
  /\ buffer \in [Sides -> Seq(Tokens)]
  /\ extra \in [Sides -> Nat]

\* Every header that is counted is set when a message is made, and the parser
\* finds those the other side gave its message, no more and no less, wherever the
\* stream was cut; but if the name of the resource has a colon the server finds
\* one more in front of them, which it makes of the request line.
HeadersWhole ==
  \A side \in Sides :
    /\ \A i \in DOMAIN out[side] : out[side][i] # Unset
    /\ pc[side] \in {"body", "got"} =>
         LET headers == message[side].headers IN
         /\ Len(headers.slot) = headers.index
         /\ serialize_headers(headers) =
              IF side = "server"
              THEN (IF colon THEN <<Start(kind, TRUE)>> ELSE <<>>) \o serialize_headers(RequestHeaders)
              ELSE IF Status(kind) = "200" THEN serialize_headers(ResponseHeaders(resource)) ELSE <<>>

\* What was read behind the head fits into the body, the byte for its end
\* included, although a response has a byte too many; and what recvall adds
\* does not go over body_length.
BodyFits ==
  \A side \in Sides : pc[side] \in {"body", "got"} /\ message[side].body_length > 0 =>
    /\ extra[side] <= message[side].body_length + 1
    /\ Len(message[side].body) <= message[side].body_length + 1

\* A file that is saved is the resource that was asked for, however head and
\* body were cut.  Only if the server ends in the middle of the body is it a
\* part of it, filled up.
FileIsResource ==
  file # NoFile =>
    \/ file = resource
    \/ /\ "server" \in fin /\ out["server"] # <<>>
       /\ Len(file) = Len(resource)
       /\ \E n \in 0 .. Len(resource) - 1 : file = Padded(SubSeq(resource, 1, n), Len(resource))

\* Neither side waits for the other for ever, whoever ends, and wherever.
ExchangeEnds == <>(Closed = Sides)
===============================================================================
