----------------------------- MODULE HttpService ------------------------------
(***************************************************************************)
(* The HTTP service of server.c: clients that send requests over a         *)
(* connection, the passes of handle_connections over those connections,    *)
(* and the two HTTP handlers with request, lock_file and the sending of a  *)
(* response.                                                               *)
(*                                                                         *)
(* One handler runs at a time (module SyncCall), yet a response is sent    *)
(* with as many calls of send as the socket needs: between them the client *)
(* reads, sends or closes, and send blocks while the socket is full.  The  *)
(* reading of a request blocks as well, from a part of its head to the     *)
(* rest of it.  One recv takes what has arrived, and what follows the      *)
(* first request in it is lost with the buffer.                            *)
(*                                                                         *)
(* The states of a server socket are those of module PingPong: fin and     *)
(* reset after a close, broken when a reset follows the end of the stream, *)
(* crossed when it will for data that was under way at the close.  A send  *)
(* on a broken or crossed socket raises SIGPIPE, which nobody handles.     *)
(***************************************************************************)
EXTENDS Integers, Sequences, SequencesExt

CONSTANTS
  Conns,         \* connections
  Listener,      \* the listening socket of the HTTP port
  NoConn,        \* no handler at work
  NoRequest,     \* NULL
  Pipelining,    \* connections whose clients do not wait for a response
  MaxRequests,   \* requests a client sends
  MaxDown,       \* pieces of a response that fit between server and client
  Pieces,        \* calls of send a response with a body takes
  FailingCalls   \* calls in handle_client_http_write that may fail

Calls == {"full_path", "size_str", "file_content", "read", "opendir", "body"}

\* What a URI asks for: a resource that is there or not, the list of them, or
\* neither (no extension, or no slash).
Kinds    == {"file", "missing", "listing", "bad"}
Requests == [n : 1..MaxRequests, kind : Kinds]

ASSUME HttpAssumption ==
  /\ Listener \notin Conns /\ NoConn \notin Conns
  /\ Pipelining \subseteq Conns /\ FailingCalls \subseteq Calls
  /\ MaxRequests \in Nat \ {0} /\ MaxDown \in Nat \ {0} /\ Pieces \in Nat \ {0}
  /\ NoRequest \notin Requests

VARIABLES
  cpc,        \* each client: idle, ready, waiting for a response, closed
  asked,      \* number of requests each client has sent
  answered,   \* the requests whose response each client has read, in order
  half,       \* connections on which a part of a head has arrived, and no more
  up,         \* requests the server has not read
  down,       \* pieces of responses the client has not read
  peer,       \* what the server's socket knows of the client
  entry,      \* there is an http_clients[] entry, and the socket is watched
  request,    \* http_clients[c]->request
  lock_file,  \* the mutex is locked
  spc,        \* the server: about to select, in a pass, stopped or killed
  readfds,    \* the snapshot: sockets readable and not served yet
  writefds,   \* the snapshot: sockets only writable and not served yet
  handled,    \* the connection a handler works for
  hpc,        \* where handle_client_http_write is; recv: the read handler waits
  unsent      \* pieces of its response still to be sent

client  == <<cpc, asked, answered>>
pass    == <<spc, readfds, writefds>>
handler == <<handled, hpc, unsent>>
vars    == <<client, half, up, down, peer, entry, request, lock_file, pass, handler>>

Init ==
  /\ cpc      = [c \in Conns |-> "idle"]
  /\ asked    = [c \in Conns |-> 0]
  /\ answered = [c \in Conns |-> <<>>]
  /\ half = {}
  /\ up       = [c \in Conns |-> <<>>]
  /\ down     = [c \in Conns |-> <<>>]
  /\ peer     = [c \in Conns |-> "none"]
  /\ entry    = [c \in Conns |-> FALSE]
  /\ request  = [c \in Conns |-> NoRequest]
  /\ lock_file = FALSE
  /\ spc = "select" /\ readfds = {} /\ writefds = {}
  /\ handled = NoConn /\ hpc = "none" /\ unsent = 0

Serving == spc \in {"select", "pass"}

-------------------------------------------------------------------------------
(* The clients: browsers, or client.c in its HTTP mode, which sends one      *)
(* request.                                                                  *)

Connect(c) ==
  /\ cpc[c] = "idle" /\ Serving
  /\ cpc' = [cpc EXCEPT ![c] = "ready"]
  /\ peer' = [peer EXCEPT ![c] = "open"]
  /\ UNCHANGED <<asked, answered, half, up, down, entry, request, lock_file, pass, handler>>

MaySend(c) ==
  /\ cpc[c] = "ready" \/ (cpc[c] = "waiting" /\ c \in Pipelining)
  /\ peer[c] = "open" /\ asked[c] < MaxRequests

\* The first part of a request; the rest may come at any time, or never.
SendHalf(c) ==
  /\ MaySend(c) /\ up[c] = <<>>
  /\ half' = half \cup {c}
  /\ UNCHANGED <<client, up, down, peer, entry, request, lock_file, pass, handler>>

\* A whole request, or the rest of one.
SendRequest(c) ==
  /\ MaySend(c)
  /\ half' = half \ {c}
  /\ asked' = [asked EXCEPT ![c] = @ + 1]
  /\ \E kind \in Kinds :
       up' = [up EXCEPT ![c] = Append(@, [n |-> asked'[c], kind |-> kind])]
  /\ cpc' = [cpc EXCEPT ![c] = "waiting"]
  /\ UNCHANGED <<answered, down, peer, entry, request, lock_file, pass, handler>>

\* The client reads a piece; the last one completes a response.
ReadPiece(c) ==
  /\ cpc[c] # "closed" /\ down[c] # <<>>
  /\ down' = [down EXCEPT ![c] = Tail(@)]
  /\ LET piece == Head(down[c]) IN
       IF piece.last
       THEN /\ answered' = [answered EXCEPT ![c] = Append(@, piece.n)]
            /\ cpc' = [cpc EXCEPT ![c] = IF piece.n = asked[c] THEN "ready" ELSE @]
       ELSE UNCHANGED <<answered, cpc>>
  /\ UNCHANGED <<asked, half, up, peer, entry, request, lock_file, pass, handler>>

\* The client closes, at any moment: what it did not read makes it a reset if
\* it had arrived, or is answered by one if it was under way.
Leave(c) ==
  /\ cpc[c] \in {"ready", "waiting"}
  /\ cpc' = [cpc EXCEPT ![c] = "closed"]
  /\ \E p \in IF down[c] = <<>> THEN {"fin"} ELSE {"reset", "crossed"} :
       peer' = [peer EXCEPT ![c] = IF @ = "open" THEN p ELSE @]
  /\ down' = [down EXCEPT ![c] = <<>>] /\ half' = half \ {c}
  /\ UNCHANGED <<asked, answered, up, entry, request, lock_file, pass, handler>>

-------------------------------------------------------------------------------
(* The main loop. *)

Readable(c) == up[c] # <<>> \/ c \in half \/ peer[c] # "open"
Writable(c) == Len(down[c]) < MaxDown \/ peer[c] # "open"
Watched     == {c \in Conns : entry[c]}
Pending     == {c \in Conns : cpc[c] # "idle" /\ ~entry[c] /\ peer[c] # "gone"}

\* select, and the order in which a pass looks at the two sets.
Select ==
  /\ spc = "select"
  /\ readfds' = {c \in Watched : Readable(c)}
                \cup (IF Pending # {} THEN {Listener} ELSE {})
  /\ writefds' = {c \in Watched : Writable(c) /\ ~Readable(c)}
  /\ spc' = "pass"
  /\ UNCHANGED <<client, half, up, down, peer, entry, request, lock_file, handler>>

\* The main thread takes the next ready descriptor: no handler is at work.
Turn == spc = "pass" /\ handled = NoConn

Accept ==
  /\ Turn /\ Listener \in readfds
  /\ readfds' = readfds \ {Listener}
  /\ \E c \in Pending : entry' = [entry EXCEPT ![c] = TRUE]
  /\ UNCHANGED <<client, half, up, down, peer, request, lock_file, spc, writefds, handler>>

PassEnds ==
  /\ Turn /\ readfds = {} /\ writefds = {}
  /\ spc' = "select"
  /\ UNCHANGED <<client, half, up, down, peer, entry, request, lock_file, readfds, writefds,
                 handler>>

\* SIGINT between passes: every client is dropped.
ServerStops ==
  /\ spc = "select"
  /\ spc' = "stopped"
  /\ entry' = [c \in Conns |-> FALSE]
  /\ request' = [c \in Conns |-> NoRequest]
  /\ peer' = [c \in Conns |-> IF entry[c] THEN "gone" ELSE peer[c]]
  /\ UNCHANGED <<client, half, up, down, lock_file, readfds, writefds, handler>>

\* free_client_http_data and FD_CLR.
Drop(c) ==
  /\ entry' = [entry EXCEPT ![c] = FALSE]
  /\ request' = [request EXCEPT ![c] = NoRequest]
  /\ peer' = [peer EXCEPT ![c] = "gone"]
  /\ up' = [up EXCEPT ![c] = <<>>]

-------------------------------------------------------------------------------
(* The handlers. *)

\* A recv that finds whole requests takes the first, in place of one that may
\* still wait for its response; the end of the stream, or an error, drops the
\* client.
TakeRequest(c) ==
  \/ /\ up[c] # <<>>
     /\ \E n \in 1..Len(up[c]) : up' = [up EXCEPT ![c] = SubSeq(@, n + 1, Len(@))]
     /\ request' = [request EXCEPT ![c] = Head(up[c])]
     /\ UNCHANGED <<entry, peer>>
  \/ up[c] = <<>> /\ peer[c] # "open" /\ Drop(c)

\* It reads until it has a whole head: a part of one keeps it waiting.
handle_client_http_read(c) ==
  /\ Turn /\ c \in readfds
  /\ readfds' = readfds \ {c}
  /\ \/ TakeRequest(c) /\ UNCHANGED handler
     \/ /\ up[c] = <<>> /\ peer[c] = "open"
        /\ handled' = c /\ hpc' = "recv" /\ UNCHANGED unsent
        /\ UNCHANGED <<up, request, entry, peer>>
  /\ UNCHANGED <<client, half, down, lock_file, spc, writefds>>

\* The rest of the head comes, or the end of the stream.
HeadComes ==
  /\ hpc = "recv"
  /\ TakeRequest(handled)
  /\ handled' = NoConn /\ hpc' = "none" /\ UNCHANGED unsent
  /\ UNCHANGED <<client, half, down, lock_file, pass>>

\* handle_client_http_write begins; without a request it is over at once.
handle_client_http_write(c) ==
  /\ Turn /\ c \in writefds
  /\ writefds' = writefds \ {c}
  /\ IF request[c] = NoRequest THEN UNCHANGED handler
     ELSE handled' = c /\ hpc' = "begin" /\ unsent' = 0
  /\ UNCHANGED <<client, half, up, down, peer, entry, request, lock_file, spc, readfds>>

Kind == request[handled].kind

\* The response is ready and takes n calls of send.
Respond(n) ==
  /\ hpc' = "send" /\ unsent' = n
  /\ UNCHANGED <<handled, peer, entry, request, up>>

\* The handler returns THREAD_RESULT_ERROR, and the client is dropped.
ReturnError ==
  /\ Drop(handled)
  /\ handled' = NoConn /\ hpc' = "none" /\ unsent' = 0

\* One of the calls fails, and leaves the mutex locked if it is this one.
Fails(calls, keepsLock) ==
  \E call \in FailingCalls \cap calls : ReturnError /\ lock_file' = (call = keepsLock)

\* The response of a request that names no resource needs no file.
BadRequest ==
  /\ hpc = "begin" /\ Kind = "bad"
  /\ Respond(1)
  /\ UNCHANGED <<client, half, down, lock_file, pass>>

\* No memory for the path of the resource.
FullPathFails ==
  /\ hpc = "begin" /\ Kind # "listing"
  /\ "full_path" \in FailingCalls
  /\ ReturnError
  /\ UNCHANGED <<client, half, down, lock_file, pass>>

LockFile ==
  /\ hpc = "begin" /\ Kind # "bad" /\ ~lock_file
  /\ lock_file' = TRUE
  /\ hpc' = "locked"
  /\ UNCHANGED <<client, half, up, down, peer, entry, request, pass, handled, unsent>>

\* The resource is read and the mutex released; not so if there is no memory
\* for the text of its size.
File ==
  /\ hpc = "locked" /\ Kind = "file"
  /\ \/ Respond(Pieces) /\ lock_file' = FALSE
     \/ Fails({"size_str", "file_content", "read"}, "size_str")
  /\ UNCHANGED <<client, half, down, pass>>

MissingFile ==
  /\ hpc = "locked" /\ Kind = "missing"
  /\ Respond(1)
  /\ lock_file' = FALSE
  /\ UNCHANGED <<client, half, down, pass>>

\* The names in the folder; the mutex stays locked if it cannot be opened.
Listing ==
  /\ hpc = "locked" /\ Kind = "listing"
  /\ \/ Respond(Pieces) /\ lock_file' = FALSE
     \/ Fails({"opendir", "body", "size_str"}, "opendir")
  /\ UNCHANGED <<client, half, down, pass>>

\* Mutant: what one send could not take is forgotten.
SendPieceOnce ==
  /\ hpc = "send" /\ unsent > 0
  /\ \/ /\ peer[handled] = "open" /\ Len(down[handled]) < MaxDown
        /\ down' = [down EXCEPT ![handled] =
                      Append(@, [n |-> request[handled].n, last |-> unsent = 1])]
        /\ unsent' = 0
        /\ UNCHANGED <<handled, hpc, peer, entry, request, up, spc>>
     \/ /\ peer[handled] # "open"
        /\ ReturnError
        /\ UNCHANGED <<down, spc>>
  /\ UNCHANGED <<client, half, lock_file, readfds, writefds>>

\* One send of sendall on a socket in each of its states.  It blocks while
\* the socket is full, and the first error drops the client.
SendPiece ==
  /\ hpc = "send" /\ unsent > 0
  /\ \/ /\ peer[handled] = "open" /\ Len(down[handled]) < MaxDown
        /\ down' = [down EXCEPT ![handled] =
                      Append(@, [n |-> request[handled].n, last |-> unsent = 1])]
        /\ unsent' = unsent - 1
        /\ UNCHANGED <<handled, hpc, peer, entry, request, up, spc>>
     \/ /\ peer[handled] = "fin"
        /\ peer' = [peer EXCEPT ![handled] = "broken"]
        /\ unsent' = unsent - 1
        /\ UNCHANGED <<handled, hpc, down, entry, request, up, spc>>
     \/ /\ peer[handled] = "reset"
        /\ ReturnError
        /\ UNCHANGED <<down, spc>>
     \/ /\ peer[handled] \in {"broken", "crossed"}
        /\ spc' = "killed"
        /\ UNCHANGED <<handler, down, peer, entry, request, up>>
  /\ UNCHANGED <<client, half, lock_file, readfds, writefds>>

\* Mutant: the request stays.
CleanupKeepsRequest ==
  /\ hpc = "send" /\ unsent = 0
  /\ handled' = NoConn /\ hpc' = "none" /\ unsent' = 0
  /\ UNCHANGED <<client, half, up, down, peer, entry, request, lock_file, pass>>

\* The response is sent: request and response are freed.
Cleanup ==
  /\ hpc = "send" /\ unsent = 0
  /\ request' = [request EXCEPT ![handled] = NoRequest]
  /\ handled' = NoConn /\ hpc' = "none" /\ unsent' = 0
  /\ UNCHANGED <<client, half, up, down, peer, entry, lock_file, pass>>

-------------------------------------------------------------------------------
HandlerStep ==
  \/ HeadComes \/ BadRequest \/ FullPathFails \/ LockFile \/ File \/ MissingFile \/ Listing
  \/ SendPiece \/ Cleanup

ServerStep ==
  \/ Select \/ Accept \/ PassEnds
  \/ \E c \in Conns : handle_client_http_read(c) \/ handle_client_http_write(c)
  \/ spc = "pass" /\ HandlerStep

\* A handler wants the mutex, which a former one left locked.
LockLost == lock_file /\ hpc = "begin" /\ Kind # "bad"

Terminated ==
  /\ ~Serving \/ LockLost
  /\ \A c \in Conns : cpc[c] \in {"idle", "closed"}
  /\ UNCHANGED vars

Next ==
  \/ \E c \in Conns : Connect(c) \/ SendHalf(c) \/ SendRequest(c) \/ ReadPiece(c) \/ Leave(c)
  \/ ServerStep \/ ServerStops \/ Terminated

Spec == Init /\ [][Next]_vars

\* The server goes on while it can.  Nothing is assumed of the clients: each may
\* stop sending or reading anywhere, for ever.
FairSpec == Spec /\ WF_vars(ServerStep)

-------------------------------------------------------------------------------
(* Properties. *)

PiecesOf == [n : 1..MaxRequests, last : BOOLEAN]

TypeOK ==
  /\ cpc \in [Conns -> {"idle", "ready", "waiting", "closed"}]
  /\ asked \in [Conns -> 0..MaxRequests]
  /\ answered \in [Conns -> Seq(1..MaxRequests)]
  /\ half \in SUBSET Conns
  /\ up \in [Conns -> Seq(Requests)]
  /\ down \in [Conns -> Seq(PiecesOf)] /\ \A c \in Conns : Len(down[c]) <= MaxDown
  /\ peer \in [Conns -> {"none", "open", "fin", "reset", "broken", "crossed", "gone"}]
  /\ entry \in [Conns -> BOOLEAN]
  /\ request \in [Conns -> Requests \cup {NoRequest}]
  /\ lock_file \in BOOLEAN
  /\ spc \in {"select", "pass", "stopped", "killed"}
  /\ readfds \in SUBSET (Conns \cup {Listener})
  /\ writefds \in SUBSET Conns
  /\ handled \in Conns \cup {NoConn}
  /\ hpc \in {"none", "recv", "begin", "locked", "send"}
  /\ unsent \in 0..Pieces

\* The request that the server has of a client and has not answered.
InHand(c) ==
  request[c] # NoRequest /\ ~ (handled = c /\ hpc = "send" /\ unsent = 0)

\* Where the requests of a client are: their numbers, each with its place on the
\* way from answered (1) over sent (2) and taken (3) to not read yet (4), and its
\* position there.
Journey(c) ==
  {<<1, i, answered[c][i]>> : i \in DOMAIN answered[c]} \cup
  {<<2, i, down[c][i].n>> : i \in {k \in DOMAIN down[c] : down[c][k].last}} \cup
  (IF InHand(c) THEN {<<3, 1, request[c].n>>} ELSE {}) \cup
  {<<4, i, up[c][i].n>> : i \in DOMAIN up[c]}

AheadOf(x, y) == x[1] < y[1] \/ (x[1] = y[1] /\ x[2] < y[2])

\* Every request is answered at most once and in the order of the requests,
\* also if the client does not wait for the responses; and as long as a client
\* that does wait is there, none of its requests is lost, although the server
\* keeps one request per connection and reads before it writes.
OnceAndInOrder ==
  \A c \in Conns :
    /\ \A x, y \in Journey(c) : AheadOf(x, y) => x[3] < y[3]
    /\ c \notin Pipelining /\ peer[c] = "open" =>
         {x[3] : x \in Journey(c)} = 1 .. asked[c]

\* A handler waits for client d: for the rest of a head, or for it to read.
HeldBy(d) ==
  /\ handled = d /\ peer[d] = "open"
  /\ \/ hpc = "recv" /\ up[d] = <<>>
     \/ hpc = "send" /\ Len(down[d]) = MaxDown

\* A client that has sent a request and waits comes to have the whole response
\* before it, or the end of the stream, whatever fails, and whatever it and the
\* others send, read or leave: with two exceptions, and they are real.  If from
\* some moment on one of the clients neither completes its head, nor reads, nor
\* closes, the handler that waits for it holds the main thread; and so does one
\* that wants the mutex after opendir or the allocation for a size has failed.
\* Then nobody is answered.
ClientsAnswered ==
  \/ \E d \in Conns : <>[]HeldBy(d)
  \/ <>[]LockLost
  \/ \A c \in Conns \ Pipelining :
       cpc[c] = "waiting" ~> \/ cpc[c] # "waiting" \/ peer[c] = "gone" \/ ~Serving
                             \/ \E i \in DOMAIN down[c] : down[c][i].last

\* A client that closes costs the server no more than that connection.
ServerSurvives == spc # "killed"
===============================================================================
