-------------------------- MODULE HttpService_proofs ---------------------------
(***************************************************************************)
(* The HTTP service for any number of connections: the type invariant, and *)
(* what becomes of lock_file, and the order in which the responses come.   *)
(***************************************************************************)
EXTENDS HttpService, TLAPS

\* The handler at work has a connection, and a request of it unless it waits for
\* one, and the loop is in the pass that called it.
AtWork ==
  /\ hpc = "none" <=> handled = NoConn
  /\ hpc # "none" => spc \in {"pass", "killed"}
  /\ hpc \notin {"none", "recv"} => request[handled] # NoRequest

IInv == TypeOK /\ AtWork

LEMMA IInvInit == Init => IInv
<1> SUFFICES ASSUME Init PROVE IInv
  OBVIOUS
<1> USE HttpAssumption DEF Init
<1>1. \A c \in Conns : Len(down[c]) <= MaxDown
  OBVIOUS
<1>2. 0 \in 0 .. MaxRequests /\ 0 \in 0 .. Pieces
  OBVIOUS
<1>3. /\ asked \in [Conns -> 0 .. MaxRequests] /\ answered \in [Conns -> Seq(1 .. MaxRequests)]
      /\ up \in [Conns -> Seq(Requests)] /\ down \in [Conns -> Seq(PiecesOf)]
      /\ request \in [Conns -> Requests \cup {NoRequest}]
  BY <1>2
<1>4. AtWork
  BY DEF AtWork
<1> QED
  BY <1>1, <1>2, <1>3, <1>4 DEF IInv, TypeOK

LEMMA AppendOne ==
  ASSUME NEW S, NEW f \in [Conns -> Seq(S)], NEW c \in Conns, NEW x \in S
  PROVE  [f EXCEPT ![c] = Append(f[c], x)] \in [Conns -> Seq(S)]
OBVIOUS

LEMMA ClientSteps ==
  ASSUME IInv, NEW c \in Conns, Connect(c) \/ SendHalf(c) \/ SendRequest(c) \/ ReadPiece(c) \/ Leave(c)
  PROVE  IInv'
<1> USE HttpAssumption DEF IInv, TypeOK
<1>1. AtWork'
  BY DEF Connect, SendHalf, SendRequest, ReadPiece, Leave, AtWork, pass, handler
<1>2. CASE Connect(c)
  BY <1>1, <1>2 DEF Connect, pass, handler
<1>6. CASE SendHalf(c)
  BY <1>1, <1>6 DEF SendHalf, client, pass, handler
<1>3. CASE SendRequest(c)
  <2>1. asked'[c] \in 1 .. MaxRequests /\ asked' \in [Conns -> 0 .. MaxRequests]
    BY <1>3, SMTT(20) DEF SendRequest, MaySend
  <2>2. PICK kind \in Kinds : up' = [up EXCEPT ![c] = Append(@, [n |-> asked'[c], kind |-> kind])]
    BY <1>3 DEF SendRequest
  <2>3. up' \in [Conns -> Seq(Requests)]
    <3> DEFINE new == [n |-> asked'[c], kind |-> kind]
    <3>1. new \in Requests
      BY <2>1 DEF Requests
    <3>2. up' = [up EXCEPT ![c] = Append(@, new)]
      BY <2>2
    <3> HIDE DEF new
    <3> QED
      BY <3>1, <3>2
  <2>4. cpc' \in [Conns -> {"idle", "ready", "waiting", "closed"}]
    BY <1>3 DEF SendRequest
  <2> QED
    BY <1>1, <1>3, <2>1, <2>3, <2>4 DEF SendRequest, pass, handler
<1>4. CASE ReadPiece(c)
  <2>1. Head(down[c]) \in PiecesOf
    BY <1>4 DEF ReadPiece
  <2>2. down' \in [Conns -> Seq(PiecesOf)] /\ \A d \in Conns : Len(down'[d]) <= MaxDown
    BY <1>4 DEF ReadPiece
  <2>3. answered' \in [Conns -> Seq(1 .. MaxRequests)]
    <3>1. Head(down[c]).n \in 1 .. MaxRequests
      BY <2>1 DEF PiecesOf
    <3>2. \/ answered' = answered
          \/ answered' = [answered EXCEPT ![c] = Append(answered[c], Head(down[c]).n)]
      BY <1>4 DEF ReadPiece
    <3>3. answered \in [Conns -> Seq(1 .. MaxRequests)]
      OBVIOUS
    <3>4. [answered EXCEPT ![c] = Append(answered[c], Head(down[c]).n)]
            \in [Conns -> Seq(1 .. MaxRequests)]
      BY <3>1, <3>3, AppendOne
    <3> QED
      BY <3>2, <3>3, <3>4
  <2>4. cpc' \in [Conns -> {"idle", "ready", "waiting", "closed"}]
    BY <1>4 DEF ReadPiece
  <2> QED
    BY <1>1, <1>4, <2>2, <2>3, <2>4 DEF ReadPiece, pass, handler
<1>5. CASE Leave(c)
  <2>1. PICK p \in {"fin", "reset", "crossed"} :
          peer' = [peer EXCEPT ![c] = IF @ = "open" THEN p ELSE @]
    BY <1>5 DEF Leave
  <2> QED
    BY <1>1, <1>5, <2>1, SMTT(20) DEF Leave, pass, handler
<1> QED
  BY <1>2, <1>3, <1>4, <1>5, <1>6

LEMMA LoopSteps ==
  ASSUME IInv, Select \/ Accept \/ PassEnds \/ ServerStops
  PROVE  IInv'
<1> USE HttpAssumption DEF IInv, TypeOK
<1>1. CASE Select
  BY <1>1 DEF Select, AtWork, Watched, client, handler
<1>2. CASE Accept
  BY <1>2 DEF Accept, Turn, AtWork, client, handler
<1>3. CASE PassEnds
  BY <1>3 DEF PassEnds, Turn, AtWork, client, handler
<1>4. CASE ServerStops
  BY <1>4 DEF ServerStops, AtWork, client, handler
<1> QED
  BY <1>1, <1>2, <1>3, <1>4

LEMMA DropTypes ==
  ASSUME TypeOK, NEW c \in Conns, Drop(c)
  PROVE  /\ entry' \in [Conns -> BOOLEAN] /\ request' \in [Conns -> Requests \cup {NoRequest}]
         /\ peer' \in [Conns -> {"none", "open", "fin", "reset", "broken", "crossed", "gone"}]
         /\ up' \in [Conns -> Seq(Requests)]
         /\ \A d \in Conns \ {c} : request'[d] = request[d]
BY DEF Drop, TypeOK

LEMMA TakeTypes ==
  ASSUME TypeOK, NEW c \in Conns, TakeRequest(c)
  PROVE  /\ entry' \in [Conns -> BOOLEAN] /\ request' \in [Conns -> Requests \cup {NoRequest}]
         /\ peer' \in [Conns -> {"none", "open", "fin", "reset", "broken", "crossed", "gone"}]
         /\ up' \in [Conns -> Seq(Requests)]
<1>1. CASE Drop(c)
  BY <1>1, DropTypes
<1>2. CASE up[c] # <<>> /\ ~ Drop(c)
  <2>1. PICK n \in 1 .. Len(up[c]) : up' = [up EXCEPT ![c] = SubSeq(@, n + 1, Len(@))]
    BY <1>2 DEF TakeRequest
  <2>2. request' = [request EXCEPT ![c] = Head(up[c])] /\ UNCHANGED <<entry, peer>>
    BY <1>2 DEF TakeRequest
  <2>3. up[c] \in Seq(Requests) /\ Head(up[c]) \in Requests
    BY <1>2 DEF TypeOK
  <2>4. SubSeq(up[c], n + 1, Len(up[c])) \in Seq(Requests)
    BY <2>1, <2>3
  <2> QED
    BY <2>1, <2>2, <2>3, <2>4 DEF TypeOK
<1> QED
  BY <1>1, <1>2 DEF TakeRequest

LEMMA CallSteps ==
  ASSUME IInv, NEW c \in Conns, handle_client_http_read(c) \/ handle_client_http_write(c)
  PROVE  IInv'
<1> USE HttpAssumption DEF IInv
<1>1. CASE handle_client_http_read(c)
  <2>1. AtWork'
    BY <1>1 DEF handle_client_http_read, Turn, AtWork, handler
  <2>2. UNCHANGED <<client, half, down, lock_file, spc, writefds>> /\ readfds' = readfds \ {c}
    BY <1>1 DEF handle_client_http_read
  <2>3. CASE TakeRequest(c) /\ UNCHANGED handler
    BY <2>1, <2>2, <2>3, TakeTypes DEF TypeOK, client, handler
  <2>4. CASE handled' = c /\ hpc' = "recv" /\ UNCHANGED <<unsent, up, request, entry, peer>>
    BY <2>1, <2>2, <2>4 DEF TypeOK, client
  <2> QED
    BY <1>1, <2>3, <2>4 DEF handle_client_http_read
<1>2. CASE handle_client_http_write(c)
  <2>1. AtWork'
    BY <1>2 DEF handle_client_http_write, Turn, AtWork, handler, TypeOK
  <2> QED
    BY <1>2, <2>1, SMTT(20) DEF handle_client_http_write, TypeOK, client, handler
<1> QED
  BY <1>1, <1>2

\* A handler that gives up drops its own client and nothing else.
LEMMA ErrorSteps ==
  ASSUME IInv, ReturnError, lock_file' \in BOOLEAN, handled # NoConn,
         UNCHANGED <<client, half, down, pass>>
  PROVE  IInv'
<1> USE HttpAssumption
<1>1. handled \in Conns
  BY DEF IInv, TypeOK
<1>2. Drop(handled) /\ handled' = NoConn /\ hpc' = "none" /\ unsent' = 0
  BY DEF ReturnError
<1>3. TypeOK'
  BY <1>1, <1>2, DropTypes DEF IInv, TypeOK, client, pass
<1> QED
  BY <1>2, <1>3 DEF IInv, AtWork

LEMMA HandlerSteps ==
  ASSUME IInv, spc = "pass", HandlerStep
  PROVE  IInv'
<1> USE HttpAssumption
<1>1. /\ hpc # "none" /\ handled \in Conns /\ handled # NoConn
      /\ ~ HeadComes => request[handled] \in Requests
  BY DEF IInv, TypeOK, AtWork, HandlerStep, HeadComes, BadRequest, FullPathFails, LockFile,
         File, MissingFile, Listing, SendPiece, Cleanup
<1>12. CASE HeadComes
  BY <1>1, <1>12, TakeTypes DEF HeadComes, IInv, TypeOK, AtWork, client, pass
<1> SUFFICES ASSUME ~ HeadComes PROVE IInv'
  BY <1>12
<1>2. ASSUME NEW n \in {1, Pieces}, Respond(n), lock_file' \in BOOLEAN,
             UNCHANGED <<client, half, down, pass>>
      PROVE  IInv'
  BY <1>1, <1>2 DEF IInv, TypeOK, AtWork, Respond, client, pass
<1>3. ASSUME NEW calls, NEW keeps, Fails(calls, keeps), UNCHANGED <<client, half, down, pass>>
      PROVE  IInv'
  BY <1>1, <1>3, ErrorSteps DEF Fails
<1>4. CASE BadRequest
  BY <1>2, <1>4 DEF BadRequest, IInv, TypeOK
<1>5. CASE FullPathFails
  BY <1>1, <1>5, ErrorSteps DEF FullPathFails, IInv, TypeOK
<1>6. CASE LockFile
  BY <1>1, <1>6 DEF LockFile, IInv, TypeOK, AtWork, client, pass
<1>7. CASE File
  BY <1>2, <1>3, <1>7 DEF File
<1>8. CASE MissingFile
  BY <1>2, <1>8 DEF MissingFile
<1>9. CASE Listing
  BY <1>2, <1>3, <1>9 DEF Listing
<1>10. CASE SendPiece
  <2>1. UNCHANGED <<client, half, lock_file, readfds, writefds>> /\ unsent > 0 /\ unsent \in Nat
    BY <1>10 DEF SendPiece, IInv, TypeOK
  <2>2. CASE /\ peer[handled] = "open" /\ Len(down[handled]) < MaxDown
             /\ down' = [down EXCEPT ![handled] =
                           Append(@, [n |-> request[handled].n, last |-> unsent = 1])]
             /\ unsent' = unsent - 1
             /\ UNCHANGED <<handled, hpc, peer, entry, request, up, spc>>
    <3>1. [n |-> request[handled].n, last |-> unsent = 1] \in PiecesOf
      BY <1>1 DEF PiecesOf, Requests
    <3>2. unsent' \in 0 .. Pieces
      BY <2>1, <2>2 DEF IInv, TypeOK
    <3>3. down' \in [Conns -> Seq(PiecesOf)] /\ \A c \in Conns : Len(down'[c]) <= MaxDown
      <4> DEFINE piece == [n |-> request[handled].n, last |-> unsent = 1]
      <4>1. down' = [down EXCEPT ![handled] = Append(@, piece)] /\ piece \in PiecesOf
        BY <2>2, <3>1
      <4> HIDE DEF piece
      <4> QED
        BY <1>1, <2>2, <4>1 DEF IInv, TypeOK
    <3> QED
      BY <2>1, <2>2, <3>2, <3>3 DEF IInv, TypeOK, AtWork, client
  <2>3. CASE /\ peer[handled] = "fin"
             /\ peer' = [peer EXCEPT ![handled] = "broken"]
             /\ unsent' = unsent - 1
             /\ UNCHANGED <<handled, hpc, down, entry, request, up, spc>>
    <3>1. unsent' \in 0 .. Pieces
      BY <2>1, <2>3 DEF IInv, TypeOK
    <3> QED
      BY <2>1, <2>3, <3>1 DEF IInv, TypeOK, AtWork, client
  <2>4. CASE ReturnError /\ UNCHANGED <<down, spc>>
    <3>1. lock_file' \in BOOLEAN
      BY <2>1 DEF IInv, TypeOK
    <3> QED
      BY <1>1, <2>1, <2>4, <3>1, ErrorSteps DEF pass
  <2>5. CASE spc' = "killed" /\ UNCHANGED <<handler, down, peer, entry, request, up>>
    BY <2>1, <2>5 DEF IInv, TypeOK, AtWork, client, handler
  <2> QED
    BY <1>10, <2>2, <2>3, <2>4, <2>5 DEF SendPiece
<1>11. CASE Cleanup
  BY <1>1, <1>11 DEF Cleanup, IInv, TypeOK, AtWork, client, pass
<1> QED
  BY <1>4, <1>5, <1>6, <1>7, <1>8, <1>9, <1>10, <1>11 DEF HandlerStep

LEMMA IInvStep == IInv /\ [Next]_vars => IInv'
<1>1. ASSUME IInv, UNCHANGED vars PROVE IInv'
  BY <1>1 DEF vars, client, pass, handler, IInv, TypeOK, AtWork
<1> QED
  BY <1>1, ClientSteps, LoopSteps, CallSteps, HandlerSteps DEF Next, ServerStep, Terminated

THEOREM HttpInv == Spec => []IInv
  BY IInvInit, IInvStep, PTL DEF Spec

\* The variables keep their ranges: in particular no socket takes more than it
\* has room for, and a handler at work always finds the request it answers.
THEOREM TypeCorrect == Spec => []TypeOK
  BY HttpInv, PTL DEF IInv

-------------------------------------------------------------------------------
\* As long as neither opendir nor the text of a size fails, lock_file is held
\* exactly while a handler is between its lock and its unlock, however the
\* handler ends: no later request finds it locked.

LockHeld == lock_file <=> hpc = "locked"

LEMMA LockInit == Init => LockHeld
BY DEF Init, LockHeld

LEMMA LockStep ==
  ASSUME FailingCalls \cap {"size_str", "opendir"} = {}, IInv, LockHeld, [Next]_vars
  PROVE  LockHeld'
<1> USE DEF LockHeld
<1>1. lock_file \in BOOLEAN /\ hpc \in {"none", "recv", "begin", "locked", "send"}
  BY DEF IInv, TypeOK
<1>2. ASSUME UNCHANGED <<hpc, lock_file>> PROVE LockHeld'
  BY <1>2
<1>3. ASSUME NEW n, Respond(n), ~ lock_file' PROVE LockHeld'
  BY <1>3 DEF Respond
<1>4. ASSUME ReturnError, ~ lock_file' PROVE LockHeld'
  BY <1>4 DEF ReturnError
<1>5. ASSUME NEW calls, NEW keeps \in {"size_str", "opendir"}, Fails(calls, keeps) PROVE LockHeld'
  <2>1. PICK call \in FailingCalls \cap calls : ReturnError /\ lock_file' = (call = keeps)
    BY <1>5 DEF Fails
  <2>2. call # keeps
    OBVIOUS
  <2> QED
    BY <1>4, <2>1, <2>2
<1>6. CASE UNCHANGED vars \/ Terminated
  BY <1>2, <1>6 DEF Terminated, vars, handler
<1>7. CASE \E c \in Conns : Connect(c) \/ SendHalf(c) \/ SendRequest(c) \/ ReadPiece(c) \/ Leave(c)
  BY <1>2, <1>7 DEF Connect, SendHalf, SendRequest, ReadPiece, Leave, handler
<1>8. CASE Select \/ Accept \/ PassEnds \/ ServerStops
  BY <1>2, <1>8 DEF Select, Accept, PassEnds, ServerStops, handler
<1>9. CASE \E c \in Conns : handle_client_http_read(c)
  <2>1. PICK c \in Conns : handle_client_http_read(c)
    BY <1>9
  <2>2. hpc = "none"
    BY <2>1 DEF handle_client_http_read, Turn, IInv, AtWork
  <2> QED
    BY <2>1, <2>2 DEF handle_client_http_read, handler
<1>10. CASE \E c \in Conns : handle_client_http_write(c)
  <2>1. PICK c \in Conns : handle_client_http_write(c)
    BY <1>10
  <2>2. hpc = "none"
    BY <2>1 DEF handle_client_http_write, Turn, IInv, AtWork
  <2> QED
    BY <2>1, <2>2 DEF handle_client_http_write, handler
<1>11. CASE BadRequest
  BY <1>1, <1>3, <1>11 DEF BadRequest
<1>12. CASE FullPathFails
  BY <1>1, <1>4, <1>12 DEF FullPathFails
<1>13. CASE LockFile
  BY <1>13 DEF LockFile
<1>14. CASE File
  BY <1>3, <1>5, <1>14 DEF File
<1>15. CASE MissingFile
  BY <1>3, <1>15 DEF MissingFile
<1>16. CASE Listing
  BY <1>3, <1>5, <1>16 DEF Listing
<1>17. CASE SendPiece
  BY <1>1, <1>2, <1>4, <1>17 DEF SendPiece, handler
<1>18. CASE Cleanup
  BY <1>1, <1>18 DEF Cleanup
<1>19. CASE HeadComes
  BY <1>19 DEF HeadComes
<1> QED
  BY <1>19, <1>6, <1>7, <1>8, <1>9, <1>10, <1>11, <1>12, <1>13, <1>14, <1>15, <1>16, <1>17, <1>18
  DEF Next, ServerStep, HandlerStep

\* Whichever of the other calls fail, and at whatever point, lock_file is
\* released on every way out of handle_client_http_write.
THEOREM LockReleased ==
  ASSUME FailingCalls \cap {"size_str", "opendir"} = {}
  PROVE  Spec => [](lock_file <=> hpc = "locked")
<1>1. IInv /\ LockHeld /\ [Next]_vars => LockHeld'
  BY LockStep
<1>2. LockHeld => (lock_file <=> hpc = "locked")
  BY DEF LockHeld
<1> QED
  BY <1>1, <1>2, LockInit, HttpInv, PTL DEF Spec

-------------------------------------------------------------------------------
\* The order of the responses.

\* The request with number n of client c is at position i of place p.
At(c, p, i, n) ==
  \/ p = 1 /\ i \in 1 .. Len(answered[c]) /\ n = answered[c][i]
  \/ p = 2 /\ i \in 1 .. Len(down[c]) /\ down[c][i].last /\ n = down[c][i].n
  \/ p = 3 /\ i = 1 /\ InHand(c) /\ n = request[c].n
  \/ p = 4 /\ i \in 1 .. Len(up[c]) /\ n = up[c][i].n

Ordered(c) ==
  /\ \A p, q, i, j, m, n :
       At(c, p, i, m) /\ At(c, q, j, n) /\ (p < q \/ (p = q /\ i < j)) => m < n
  /\ \A p, i, n : At(c, p, i, n) => n <= asked[c]

\* A client that waits for each response has all of them but the one it waits
\* for, and the request of that one is at one place: p, at position i.
Awaited(c, p, i) ==
  \A q, j, n : q # 1 => (At(c, q, j, n) <=> q = p /\ j = i /\ n = asked[c])

OneAtATime(c) ==
  c \notin Pipelining /\ peer[c] = "open" =>
    /\ Len(answered[c]) = IF cpc[c] = "waiting" THEN asked[c] - 1 ELSE asked[c]
    /\ \A i \in 1 .. Len(answered[c]) : answered[c][i] = i
    /\ cpc[c] # "waiting" => \A p, i, n : At(c, p, i, n) => p = 1
    /\ cpc[c] = "waiting" => \E p \in 2 .. 4 : \E i : Awaited(c, p, i)

\* Before a client has connected there is nothing of it.
Unborn(c) ==
  /\ cpc[c] = "idle" =>
       /\ peer[c] = "none" /\ asked[c] = 0 /\ request[c] = NoRequest /\ ~ entry[c]
       /\ answered[c] = <<>> /\ up[c] = <<>> /\ down[c] = <<>>
  /\ peer[c] = "open" => cpc[c] \in {"ready", "waiting"}

\* A pass looks at a socket once, and at none that has no entry.
InPass(c) ==
  /\ request[c] # NoRequest => entry[c]
  /\ ~ (c \in readfds /\ c \in writefds)
  /\ c \in readfds \cup writefds => handled # c /\ (spc = "pass" => entry[c])
  /\ handled = c => entry[c]
  /\ spc = "select" => c \notin readfds \cup writefds

FlowOf(c) == Ordered(c) /\ OneAtATime(c) /\ Unborn(c) /\ InPass(c)
Flow == \A c \in Conns : FlowOf(c)

LEMMA AtTypes ==
  ASSUME TypeOK, NEW c \in Conns
  PROVE  \A p, i, n : At(c, p, i, n) =>
           p \in 1 .. 4 /\ i \in Int /\ i >= 1 /\ n \in Int /\ n >= 1
<1> USE HttpAssumption DEF TypeOK
<1> SUFFICES ASSUME NEW p, NEW i, NEW n, At(c, p, i, n)
             PROVE  p \in 1 .. 4 /\ i \in Int /\ i >= 1 /\ n \in Int /\ n >= 1
  OBVIOUS
<1>1. CASE p = 1 /\ i \in 1 .. Len(answered[c]) /\ n = answered[c][i]
  <2>1. answered[c] \in Seq(1 .. MaxRequests)
    OBVIOUS
  <2> QED
    BY <1>1, <2>1
<1>2. CASE p = 2 /\ i \in 1 .. Len(down[c]) /\ n = down[c][i].n
  <2>1. down[c] \in Seq(PiecesOf)
    OBVIOUS
  <2>2. down[c][i] \in PiecesOf
    BY <1>2, <2>1
  <2> QED
    BY <1>2, <2>1, <2>2 DEF PiecesOf
<1>3. CASE p = 3 /\ i = 1 /\ InHand(c) /\ n = request[c].n
  BY <1>3 DEF InHand, Requests
<1>4. CASE p = 4 /\ i \in 1 .. Len(up[c]) /\ n = up[c][i].n
  <2>1. up[c] \in Seq(Requests)
    OBVIOUS
  <2>2. up[c][i] \in Requests
    BY <1>4, <2>1
  <2> QED
    BY <1>4, <2>1, <2>2 DEF Requests
<1> QED
  BY <1>1, <1>2, <1>3, <1>4 DEF At

\* Nothing that matters has changed for client c.
LEMMA Untouched ==
  ASSUME NEW c \in Conns, FlowOf(c),
         answered'[c] = answered[c], down'[c] = down[c], up'[c] = up[c],
         asked'[c] = asked[c], InHand(c)' = InHand(c),
         request'[c] = request[c] \/ (cpc[c] # "idle" /\ ~ InHand(c)),
         entry'[c] = entry[c] \/ cpc[c] # "idle",
         cpc'[c] = cpc[c], peer'[c] = peer[c], InPass(c)'
  PROVE  FlowOf(c)'
<1>1. \A p, i, n : At(c, p, i, n)' <=> At(c, p, i, n)
  BY DEF At
<1>2. Ordered(c)'
  BY <1>1 DEF FlowOf, Ordered
<1>3. OneAtATime(c)'
  <2>1. \A p, i : Awaited(c, p, i)' <=> Awaited(c, p, i)
    BY <1>1 DEF Awaited
  <2> QED
    BY <1>1, <2>1 DEF FlowOf, OneAtATime
<1>4. Unborn(c)'
  BY DEF FlowOf, Unborn
<1> QED
  BY <1>2, <1>3, <1>4 DEF FlowOf

\* The connection is over, and what was on its way is lost.
LEMMA Lost ==
  ASSUME NEW c \in Conns, FlowOf(c), \A p, i, n : At(c, p, i, n)' => At(c, p, i, n),
         asked'[c] = asked[c], peer'[c] # "open", cpc'[c] # "idle", InPass(c)'
  PROVE  FlowOf(c)'
<1>1. Ordered(c)'
  BY DEF FlowOf, Ordered
<1> QED
  BY <1>1 DEF FlowOf, OneAtATime, Unborn

\* Requests that move on without overtaking each other stay in order.
LEMMA StillOrdered ==
  ASSUME NEW c \in Conns, Ordered(c), asked'[c] = asked[c],
         \A p, i, n : At(c, p, i, n)' => \E q, j : At(c, q, j, n),
         \A p, q, i, j, m, n :
           At(c, p, i, m)' /\ At(c, q, j, n)' /\ (p < q \/ (p = q /\ i < j)) =>
             \E r, s, k, l : At(c, r, k, m) /\ At(c, s, l, n) /\ (r < s \/ (r = s /\ k < l))
  PROVE  Ordered(c)'
<1>1. \A p, q, i, j, m, n :
        At(c, p, i, m)' /\ At(c, q, j, n)' /\ (p < q \/ (p = q /\ i < j)) => m < n
  BY DEF Ordered
<1>2. \A p, i, n : At(c, p, i, n)' => n <= asked'[c]
  BY DEF Ordered
<1> QED
  BY <1>1, <1>2 DEF Ordered

-------------------------------------------------------------------------------
\* The steps of the clients.

\* Of the other clients.
LEMMA ClientFrame ==
  ASSUME IInv, Flow, NEW c \in Conns,
         Connect(c) \/ SendRequest(c) \/ ReadPiece(c) \/ Leave(c),
         FlowOf(c)'
  PROVE  Flow'
<1> USE DEF IInv, TypeOK
<1>1. ASSUME NEW d \in Conns, d # c PROVE FlowOf(d)'
  <2>1. UNCHANGED <<entry, request, spc, readfds, writefds, handled, hpc, unsent>>
    BY DEF Connect, SendRequest, ReadPiece, Leave, pass, handler
  <2>2. /\ answered'[d] = answered[d] /\ asked'[d] = asked[d] /\ cpc'[d] = cpc[d]
        /\ peer'[d] = peer[d]
    BY <1>1 DEF Connect, SendRequest, ReadPiece, Leave
  <2>3. up'[d] = up[d]
    BY <1>1 DEF Connect, SendRequest, ReadPiece, Leave
  <2>4. down'[d] = down[d]
    BY <1>1 DEF Connect, SendRequest, ReadPiece, Leave
  <2>5. InHand(d)' = InHand(d)
    BY <2>1 DEF InHand
  <2>6. FlowOf(d)
    BY DEF Flow
  <2>7. InPass(d)'
    BY <2>1, <2>6 DEF FlowOf, InPass
  <2> QED
    BY <2>1, <2>2, <2>3, <2>4, <2>5, <2>6, <2>7, Untouched
<1> QED
  BY <1>1 DEF Flow

\* A part of a head does not count yet.
LEMMA SendHalfFlows ==
  ASSUME IInv, Flow, NEW c \in Conns, SendHalf(c)
  PROVE  Flow'
<1>1. UNCHANGED <<client, up, down, peer, entry, request, pass, handler>>
  BY DEF SendHalf
<1>2. ASSUME NEW d \in Conns PROVE FlowOf(d)'
  <2>1. FlowOf(d)
    BY DEF Flow
  <2>2. InHand(d)' = InHand(d) /\ InPass(d)'
    BY <1>1, <2>1 DEF InHand, InPass, FlowOf, pass, handler
  <2> QED
    BY <1>1, <2>1, <2>2, Untouched DEF client
<1> QED
  BY <1>2 DEF Flow

LEMMA ConnectFlows ==
  ASSUME IInv, Flow, NEW c \in Conns, Connect(c)
  PROVE  Flow'
<1> USE DEF IInv, TypeOK
<1>1. /\ UNCHANGED <<answered, asked, up, down, request,
                     handled, hpc, unsent, entry, spc, readfds, writefds>>
      /\ cpc[c] = "idle" /\ cpc'[c] = "ready" /\ peer'[c] = "open"
  BY DEF Connect, pass, handler
<1>2. FlowOf(c)
  BY DEF Flow
<1>3. /\ asked[c] = 0 /\ request[c] = NoRequest /\ answered[c] = <<>> /\ up[c] = <<>>
      /\ down[c] = <<>>
  BY <1>1, <1>2 DEF FlowOf, Unborn
<1>4. \A p, i, n : ~ At(c, p, i, n)'
  BY <1>1, <1>3 DEF At, InHand
<1>5. Ordered(c)'
  BY <1>4 DEF Ordered
<1>6. OneAtATime(c)'
  BY <1>1, <1>3, <1>4 DEF OneAtATime
<1>7. Unborn(c)' /\ InPass(c)'
  BY <1>1, <1>2 DEF FlowOf, Unborn, InPass
<1> QED
  BY <1>5, <1>6, <1>7, ClientFrame DEF FlowOf

\* A request goes behind all others.
LEMMA SendRequestFlows ==
  ASSUME IInv, Flow, NEW c \in Conns, SendRequest(c)
  PROVE  Flow'
<1> USE DEF IInv, TypeOK
<1>1. /\ UNCHANGED <<answered, down, peer, request,
                     handled, hpc, unsent, entry, spc, readfds, writefds>>
      /\ cpc[c] = "ready" \/ (cpc[c] = "waiting" /\ c \in Pipelining)
      /\ asked'[c] = asked[c] + 1 /\ cpc'[c] = "waiting" /\ peer[c] = "open"
      /\ \E kind \in Kinds : up' = [up EXCEPT ![c] = Append(@, [n |-> asked'[c], kind |-> kind])]
  BY DEF SendRequest, MaySend, pass, handler
<1>2. FlowOf(c)
  BY DEF Flow
<1>0. PICK L : L = Len(up[c])
  OBVIOUS
<1>3. /\ L \in Nat /\ Len(up'[c]) = L + 1 /\ up'[c][L + 1].n = asked[c] + 1
      /\ \A i \in 1 .. L : up'[c][i] = up[c][i]
  <2>1. PICK kind \in Kinds : up' = [up EXCEPT ![c] = Append(@, [n |-> asked'[c], kind |-> kind])]
    BY <1>1
  <2>2. up[c] \in Seq(Requests) /\ up'[c] = Append(up[c], [n |-> asked'[c], kind |-> kind])
    BY <2>1
  <2> DEFINE new == [n |-> asked'[c], kind |-> kind]
  <2>3. new.n = asked[c] + 1
    BY <1>1
  <2> HIDE DEF new
  <2>4. up'[c] = Append(up[c], new)
    BY <2>2 DEF new
  <2> QED
    BY <2>2, <2>3, <2>4, <1>0
<1>4. \A p, i, n : At(c, p, i, n)' <=> At(c, p, i, n) \/ (p = 4 /\ i = L + 1 /\ n = asked[c] + 1)
  <2>1. \A i : InHand(c)' = InHand(c)
    BY <1>1 DEF InHand
  <2>2. \A i, n : (i \in 1 .. Len(up'[c]) /\ n = up'[c][i].n) <=>
                  ((i \in 1 .. L /\ n = up[c][i].n) \/ (i = L + 1 /\ n = asked[c] + 1))
    <3>1. \A i : i \in 1 .. Len(up'[c]) <=> i \in 1 .. L \/ i = L + 1
      BY <1>3, SMTT(20)
    <3>2. L + 1 \notin 1 .. L
      BY <1>3
    <3> QED
      BY <1>3, <3>1, <3>2
  <2> QED
    BY <1>1, <1>0, <2>1, <2>2, SMTT(20) DEF At
<1>5. \A p, i, n : At(c, p, i, n) => p \in 1 .. 4 /\ i \in Int /\ n \in Int /\ n <= asked[c]
                                     /\ (p = 4 => i <= L)
  <2> SUFFICES ASSUME NEW p, NEW i, NEW n, At(c, p, i, n)
               PROVE  /\ p \in 1 .. 4 /\ i \in Int /\ n \in Int /\ n <= asked[c]
                      /\ p = 4 => i <= L
    OBVIOUS
  <2>1. p \in 1 .. 4 /\ i \in Int /\ n \in Int
    BY AtTypes
  <2>2. n <= asked[c]
    BY <1>2 DEF FlowOf, Ordered
  <2>3. p = 4 => i <= L
    BY <1>3, <1>0, <2>1 DEF At
  <2> QED
    BY <2>1, <2>2, <2>3
<1>6. Ordered(c)'
  <2>1. asked[c] \in Int /\ L \in Int
    BY <1>3
  <2>2. ASSUME NEW p, NEW q, NEW i, NEW j, NEW m, NEW n, At(c, p, i, m)', At(c, q, j, n)',
               p < q \/ (p = q /\ i < j)
        PROVE  m < n
    <3>1. CASE At(c, p, i, m) /\ At(c, q, j, n)
      BY <1>2, <2>2, <3>1 DEF FlowOf, Ordered
    <3>2. CASE At(c, p, i, m) /\ q = 4 /\ j = L + 1 /\ n = asked[c] + 1
      BY <1>5, <2>1, <3>2
    <3>3. CASE p = 4 /\ i = L + 1
      <4>1. q \in 1 .. 4 /\ j \in Int /\ (q = 4 => j <= L + 1)
        <5>1. CASE At(c, q, j, n)
          BY <1>5, <2>1, <5>1
        <5>2. CASE q = 4 /\ j = L + 1
          BY <2>1, <5>2
        <5> QED
          BY <1>4, <2>2, <5>1, <5>2
      <4> QED
        BY <2>1, <2>2, <3>3, <4>1
    <3> QED
      BY <1>4, <2>2, <3>1, <3>2, <3>3
  <2>3. \A p, i, n : At(c, p, i, n)' => n <= asked'[c]
    <3> SUFFICES ASSUME NEW p, NEW i, NEW n, At(c, p, i, n)' PROVE n <= asked[c] + 1
      BY <1>1
    <3>1. CASE At(c, p, i, n)
      <4>1. n \in Int /\ n <= asked[c]
        BY <1>5, <3>1
      <4> QED
        BY <2>1, <4>1
    <3>2. CASE n = asked[c] + 1
      BY <2>1, <3>2
    <3> QED
      BY <1>4, <3>1, <3>2
  <2> QED
    BY <2>2, <2>3 DEF Ordered
<1>7. OneAtATime(c)'
  <2> SUFFICES ASSUME c \notin Pipelining PROVE OneAtATime(c)'
    BY DEF OneAtATime
  <2>1. /\ Len(answered[c]) = asked[c] /\ \A i \in 1 .. Len(answered[c]) : answered[c][i] = i
        /\ \A p, i, n : At(c, p, i, n) => p = 1
    BY <1>1, <1>2 DEF FlowOf, OneAtATime
  <2>2. Awaited(c, 4, L + 1)'
    <3>1. ASSUME NEW q, NEW j, NEW n, q # 1
          PROVE  At(c, q, j, n)' <=> q = 4 /\ j = L + 1 /\ n = asked'[c]
      BY <1>1, <1>4, <2>1, <3>1
    <3> QED
      BY <3>1 DEF Awaited
  <2> QED
    BY <1>1, <2>1, <2>2 DEF OneAtATime
<1>8. Unborn(c)' /\ InPass(c)'
  BY <1>1, <1>2 DEF FlowOf, Unborn, InPass
<1> QED
  BY <1>6, <1>7, <1>8, ClientFrame DEF FlowOf

\* The last piece of a response takes its request from sent to answered; any other
\* piece makes room.
LEMMA ReadPieceFlows ==
  ASSUME IInv, Flow, NEW c \in Conns, ReadPiece(c)
  PROVE  Flow'
<1> USE DEF IInv, TypeOK
<1>1. /\ UNCHANGED <<asked, up, peer, request, handled, hpc, unsent, entry, spc, readfds, writefds>>
      /\ cpc[c] # "closed" /\ down[c] # <<>> /\ down' = [down EXCEPT ![c] = Tail(@)]
  BY DEF ReadPiece, pass, handler
<1>2. FlowOf(c)
  BY DEF Flow
<1>3. PICK piece : piece = Head(down[c])
  OBVIOUS
<1>4. PICK A : A = Len(answered[c])
  OBVIOUS
<1>5. /\ down[c] \in Seq(PiecesOf) /\ Len(down[c]) >= 1 /\ down[c][1] = piece
      /\ piece \in PiecesOf /\ down'[c] = Tail(down[c])
  BY <1>1, <1>3
<1>6. /\ Len(down'[c]) = Len(down[c]) - 1
      /\ \A i \in 1 .. Len(down'[c]) : down'[c][i] = down[c][i + 1]
  BY <1>5
<1>7. InHand(c)' = InHand(c)
  BY <1>1 DEF InHand
<1>8. \A i, n : At(c, 2, i, n)' <=> i \in Int /\ i >= 1 /\ At(c, 2, i + 1, n)
  <2>1. Len(down[c]) \in Nat
    BY <1>5
  <2>2. \A i : i \in 1 .. Len(down'[c]) <=> i \in Int /\ i >= 1 /\ i + 1 \in 1 .. Len(down[c])
    BY <1>6, <2>1
  <2> SUFFICES ASSUME NEW i, NEW n
               PROVE  At(c, 2, i, n)' <=> i \in Int /\ i >= 1 /\ At(c, 2, i + 1, n)
    OBVIOUS
  <2>3. CASE i \in 1 .. Len(down'[c])
    <3>1. down'[c][i] = down[c][i + 1]
      BY <1>6, <2>3
    <3>2. i \in Int /\ i >= 1 /\ i + 1 \in 1 .. Len(down[c])
      BY <2>2, <2>3
    <3> HIDE DEF IInv, TypeOK
    <3>3. At(c, 2, i, n)' <=> down[c][i + 1].last /\ n = down[c][i + 1].n
      BY <2>3, <3>1 DEF At
    <3>4. At(c, 2, i + 1, n) <=> down[c][i + 1].last /\ n = down[c][i + 1].n
      BY <3>2 DEF At
    <3> QED
      BY <3>2, <3>3, <3>4
  <2>4. CASE i \notin 1 .. Len(down'[c])
    BY <2>2, <2>4 DEF At
  <2> QED
    BY <2>3, <2>4
<1>9. \A p, i, n : p \in {3, 4} => (At(c, p, i, n)' <=> At(c, p, i, n))
  BY <1>1, <1>7 DEF At
<1>10. Unborn(c)' /\ InPass(c)'
  <2>1. cpc[c] # "idle" /\ cpc'[c] \in {cpc[c], "ready"}
    BY <1>1, <1>2 DEF FlowOf, Unborn, ReadPiece
  <2> QED
    BY <1>1, <1>2, <2>1 DEF FlowOf, Unborn, InPass
<1> HIDE DEF IInv, TypeOK
<1>11. CASE piece.last
  <2>1. /\ answered'[c] = Append(answered[c], piece.n)
        /\ cpc'[c] = IF piece.n = asked[c] THEN "ready" ELSE cpc[c]
    BY <1>1, <1>3, <1>11 DEF ReadPiece, IInv, TypeOK
  <2>2. /\ A \in Nat /\ Len(answered'[c]) = A + 1 /\ answered'[c][A + 1] = piece.n
        /\ \A i \in 1 .. A : answered'[c][i] = answered[c][i]
    <3>1. answered[c] \in Seq(1 .. MaxRequests)
      BY DEF IInv, TypeOK
    <3> QED
      BY <1>4, <2>1, <3>1
  <2>3. At(c, 2, 1, piece.n)
    BY <1>5, <1>11 DEF At
  <2>4. \A i, n : At(c, 1, i, n)' <=> At(c, 1, i, n) \/ (i = A + 1 /\ n = piece.n)
    <3>1. \A i : i \in 1 .. A + 1 <=> i \in 1 .. A \/ i = A + 1
      BY <2>2
    <3>2. A + 1 \notin 1 .. A
      BY <2>2
    <3> QED
      BY <1>4, <2>2, <3>1, <3>2 DEF At
  <2>5. \A i, n : At(c, 1, i, n) => i \in 1 .. A
    BY <1>4 DEF At
  <2>6. \A p, i, n : At(c, p, i, n)' => p \in 1 .. 4
    BY DEF At
  <2>7. Ordered(c)'
    <3> DEFINE Came(p, i, q, j) ==
                 \/ p = 1 /\ i = A + 1 /\ q = 2 /\ j = 1
                 \/ p = 1 /\ i \in 1 .. A /\ q = 1 /\ j = i
                 \/ p = 2 /\ i \in Int /\ i >= 1 /\ q = 2 /\ j = i + 1
                 \/ p \in {3, 4} /\ q = p /\ j = i
    <3>1. ASSUME NEW p, NEW i, NEW n, At(c, p, i, n)'
          PROVE  \E q, j : At(c, q, j, n) /\ Came(p, i, q, j)
      <4>1. CASE p = 1
        BY <2>3, <2>4, <2>5, <3>1, <4>1
      <4>2. CASE p = 2
        BY <1>8, <3>1, <4>2
      <4>3. CASE p \in {3, 4}
        BY <1>9, <3>1, <4>3
      <4> QED
        BY <2>6, <3>1, <4>1, <4>2, <4>3
    <3>2. ASSUME NEW p, NEW q, NEW i, NEW j, NEW r, NEW s, NEW k, NEW l,
                 Came(p, i, r, k), Came(q, j, s, l), p < q \/ (p = q /\ i < j)
          PROVE  r < s \/ (r = s /\ k < l)
      BY <2>2, <3>2
    <3> HIDE DEF Came
    <3>3. ASSUME NEW p, NEW q, NEW i, NEW j, NEW m, NEW n, At(c, p, i, m)', At(c, q, j, n)',
                 p < q \/ (p = q /\ i < j)
          PROVE  \E r, s, k, l : At(c, r, k, m) /\ At(c, s, l, n) /\ (r < s \/ (r = s /\ k < l))
      <4>1. PICK r, k : At(c, r, k, m) /\ Came(p, i, r, k)
        BY <3>1, <3>3
      <4>2. PICK s, l : At(c, s, l, n) /\ Came(q, j, s, l)
        BY <3>1, <3>3
      <4>3. r < s \/ (r = s /\ k < l)
        BY <3>2, <3>3, <4>1, <4>2
      <4> QED
        BY <4>1, <4>2, <4>3
    <3>4. \A p, i, n : At(c, p, i, n)' => \E q, j : At(c, q, j, n)
      BY <3>1
    <3>5. Ordered(c) /\ asked'[c] = asked[c]
      BY <1>1, <1>2 DEF FlowOf
    <3> QED
      BY <3>3, <3>4, <3>5, StillOrdered
  <2>8. OneAtATime(c)'
    <3> SUFFICES ASSUME c \notin Pipelining, peer[c] = "open" PROVE OneAtATime(c)'
      BY <1>1 DEF OneAtATime
    <3>1. cpc[c] = "waiting"
      BY <1>2, <2>3 DEF FlowOf, OneAtATime
    <3>8. PICK p \in 2 .. 4 : \E i : Awaited(c, p, i)
      BY <1>2, <3>1 DEF FlowOf, OneAtATime
    <3>2. PICK i : Awaited(c, p, i)
      BY <3>8
    <3>3. p = 2 /\ i = 1 /\ piece.n = asked[c]
      BY <2>3, <3>2 DEF Awaited
    <3>4. A + 1 = asked[c] /\ \A k \in 1 .. A : answered[c][k] = k
      <4>1. A = asked[c] - 1 /\ \A k \in 1 .. A : answered[c][k] = k
        BY <1>2, <1>4, <3>1 DEF FlowOf, OneAtATime
      <4>2. asked[c] \in Int
        BY DEF IInv, TypeOK
      <4> QED
        BY <4>1, <4>2
    <3>5. \A k \in 1 .. Len(answered'[c]) : answered'[c][k] = k
      <4> SUFFICES ASSUME NEW k \in 1 .. A + 1 PROVE answered'[c][k] = k
        BY <2>2
      <4>1. CASE k \in 1 .. A
        BY <2>2, <3>4, <4>1
      <4>2. CASE k = A + 1
        BY <2>2, <3>3, <3>4, <4>2
      <4> QED
        BY <2>2, <4>1, <4>2
    <3>6. ASSUME NEW q, NEW j, NEW n, At(c, q, j, n)', q # 1 PROVE FALSE
      <4>1. CASE q = 2
        BY <1>8, <3>2, <3>3, <3>6, <4>1 DEF Awaited
      <4>2. CASE q \in {3, 4}
        BY <1>9, <3>2, <3>3, <3>6, <4>2 DEF Awaited
      <4> QED
        BY <2>6, <3>6, <4>1, <4>2
    <3>7. cpc'[c] = "ready" /\ Len(answered'[c]) = asked'[c]
      BY <1>1, <2>1, <2>2, <3>3, <3>4
    <3> QED
      BY <3>5, <3>6, <3>7 DEF OneAtATime
  <2> QED
    BY <1>10, <2>7, <2>8, ClientFrame DEF FlowOf
<1>12. CASE ~ piece.last
  <2>1. UNCHANGED <<answered, cpc>>
    BY <1>3, <1>12 DEF ReadPiece
  <2>2. \A p, i, n : p # 2 => (At(c, p, i, n)' <=> At(c, p, i, n))
    BY <1>7, <1>1, <2>1 DEF At
  <2>3. \A i, n : At(c, 2, i, n) => i \in Int /\ i >= 2
    <3> SUFFICES ASSUME NEW i, NEW n, At(c, 2, i, n) PROVE i \in Int /\ i >= 2
      OBVIOUS
    <3>1. i \in 1 .. Len(down[c]) /\ down[c][i].last
      BY DEF At
    <3>2. i # 1
      BY <1>5, <1>12, <3>1
    <3> QED
      BY <1>5, <3>1, <3>2
  <2>4. Ordered(c)'
    <3>1. ASSUME NEW p, NEW i, NEW n, At(c, p, i, n)'
          PROVE  At(c, p, IF p = 2 THEN i + 1 ELSE i, n) /\ (p = 2 => i \in Int)
      BY <1>8, <2>2, <3>1
    <3>2. ASSUME NEW p, NEW q, NEW i, NEW j, NEW m, NEW n, At(c, p, i, m)', At(c, q, j, n)',
                 p < q \/ (p = q /\ i < j)
          PROVE  \E r, s, k, l : At(c, r, k, m) /\ At(c, s, l, n) /\ (r < s \/ (r = s /\ k < l))
      <4> DEFINE k == IF p = 2 THEN i + 1 ELSE i
                 l == IF q = 2 THEN j + 1 ELSE j
      <4>1. At(c, p, k, m) /\ At(c, q, l, n)
        BY <3>1, <3>2
      <4>2. p < q \/ (p = q /\ k < l)
        BY <3>1, <3>2
      <4> QED
        BY <4>1, <4>2
    <3>3. \A p, i, n : At(c, p, i, n)' => \E q, j : At(c, q, j, n)
      BY <3>1
    <3>4. Ordered(c) /\ asked'[c] = asked[c]
      BY <1>1, <1>2 DEF FlowOf
    <3> QED
      BY <3>2, <3>3, <3>4, StillOrdered
  <2>5. OneAtATime(c)'
    <3> SUFFICES ASSUME c \notin Pipelining, peer[c] = "open" PROVE OneAtATime(c)'
      BY <1>1 DEF OneAtATime
    <3>1. CASE cpc[c] # "waiting"
      <4>1. ASSUME NEW p, NEW i, NEW n, At(c, p, i, n)' PROVE p = 1
        BY <1>2, <1>8, <2>2, <3>1, <4>1 DEF FlowOf, OneAtATime
      <4> QED
        BY <1>1, <1>2, <2>1, <3>1, <4>1 DEF FlowOf, OneAtATime
    <3>2. CASE cpc[c] = "waiting"
      <4>6. PICK p \in 2 .. 4 : \E i : Awaited(c, p, i)
        BY <1>2, <3>2 DEF FlowOf, OneAtATime
      <4>1. PICK i : Awaited(c, p, i)
        BY <4>6
      <4>2. PICK k : k = IF p = 2 THEN i - 1 ELSE i
        OBVIOUS
      <4>3. At(c, p, i, asked[c])
        BY <4>1 DEF Awaited
      <4>4. ASSUME NEW q, NEW j, NEW n, q # 1
            PROVE  At(c, q, j, n)' <=> q = p /\ j = k /\ n = asked'[c]
        <5>1. CASE q # 2
          BY <1>1, <2>2, <4>1, <4>2, <4>4, <5>1 DEF Awaited
        <5>2. CASE q = 2 /\ p # 2
          BY <1>1, <1>8, <4>1, <5>2 DEF Awaited
        <5>3. CASE q = 2 /\ p = 2
          <6>1. i \in Int /\ i >= 2
            BY <2>3, <4>3, <5>3
          <6>2. j \in Int => (At(c, 2, j + 1, n) <=> j + 1 = i /\ n = asked[c])
            BY <4>1, <5>3 DEF Awaited
          <6>3. j \in Int => (j + 1 = i <=> j = i - 1)
            BY <6>1
          <6>4. i - 1 \in Int /\ i - 1 >= 1
            BY <6>1
          <6> QED
            BY <1>1, <1>8, <4>2, <5>3, <6>2, <6>3, <6>4
        <5> QED
          BY <5>1, <5>2, <5>3
      <4>5. Awaited(c, p, k)'
        BY <4>4 DEF Awaited
      <4> QED
        BY <1>1, <1>2, <2>1, <3>2, <4>5 DEF FlowOf, OneAtATime
    <3> QED
      BY <3>1, <3>2
  <2> QED
    BY <1>10, <2>4, <2>5, ClientFrame DEF FlowOf
<1> QED
  BY <1>11, <1>12

LEMMA LeaveFlows ==
  ASSUME IInv, Flow, NEW c \in Conns, Leave(c)
  PROVE  Flow'
<1> USE DEF IInv, TypeOK
<1>1. /\ UNCHANGED <<answered, asked, up, request,
                     handled, hpc, unsent, entry, spc, readfds, writefds>>
      /\ cpc'[c] = "closed" /\ peer'[c] # "open" /\ down'[c] = <<>>
  BY DEF Leave, pass, handler
<1>2. FlowOf(c)
  BY DEF Flow
<1>3. \A p, i, n : At(c, p, i, n)' => At(c, p, i, n)
  <2>1. InHand(c)' = InHand(c)
    BY <1>1 DEF InHand
  <2>2. Len(down'[c]) = 0
    BY <1>1
  <2> QED
    BY <1>1, <2>1, <2>2 DEF At
<1>4. InPass(c)'
  BY <1>1, <1>2 DEF FlowOf, InPass
<1>5. FlowOf(c)'
  BY <1>1, <1>2, <1>3, <1>4, Lost
<1> QED
  BY <1>5, ClientFrame

-------------------------------------------------------------------------------
\* The steps of the main loop.

LEMMA LoopFlows ==
  ASSUME IInv, Flow, Select \/ Accept \/ PassEnds \/ ServerStops
  PROVE  Flow'
<1> USE HttpAssumption DEF IInv, TypeOK, Flow
<1>1. UNCHANGED <<client, up, down, handler>>
  BY DEF Select, Accept, PassEnds, ServerStops
<1>2. CASE Select
  <2>1. UNCHANGED <<peer, entry, request>>
    BY <1>2 DEF Select
  <2>2. handled = NoConn
    BY <1>2 DEF Select, AtWork
  <2>3. ASSUME NEW c \in Conns PROVE InPass(c)'
    <3>1. /\ c \in readfds' <=> entry[c] /\ Readable(c)
          /\ c \in writefds' <=> entry[c] /\ Writable(c) /\ ~ Readable(c)
      BY <1>2 DEF Select, Watched
    <3>2. handled' # c /\ spc' = "pass" /\ InPass(c)
      BY <1>1, <1>2, <2>2 DEF Select, handler, FlowOf
    <3> HIDE DEF IInv, TypeOK, Flow
    <3> QED
      BY <2>1, <3>1, <3>2 DEF InPass
  <2>4. ASSUME NEW c \in Conns PROVE FlowOf(c)'
    BY <1>1, <2>1, <2>3, Untouched DEF client, handler, InHand
  <2> QED
    BY <2>4
<1>3. CASE Accept
  <2>1. /\ UNCHANGED <<peer, request, spc, writefds>> /\ readfds' \subseteq readfds
        /\ \E c \in Pending : entry' = [entry EXCEPT ![c] = TRUE]
    BY <1>3 DEF Accept
  <2>2. ASSUME NEW c \in Conns
        PROVE  entry'[c] = entry[c] \/ (cpc[c] # "idle" /\ entry'[c])
    BY <2>1 DEF Pending
  <2>3. ASSUME NEW c \in Conns PROVE InPass(c)'
    BY <1>1, <2>1, <2>2 DEF FlowOf, InPass, handler
  <2>4. ASSUME NEW c \in Conns PROVE FlowOf(c)'
    BY <1>1, <2>1, <2>2, <2>3, Untouched DEF client, handler, InHand
  <2> QED
    BY <2>4
<1>4. CASE PassEnds
  <2>1. UNCHANGED <<peer, entry, request>> /\ readfds' = {} /\ writefds' = {}
    BY <1>4 DEF PassEnds
  <2>2. ASSUME NEW c \in Conns PROVE InPass(c)'
    BY <1>1, <2>1 DEF FlowOf, InPass, handler
  <2>3. ASSUME NEW c \in Conns PROVE FlowOf(c)'
    BY <1>1, <2>1, <2>2, Untouched DEF client, handler, InHand
  <2> QED
    BY <2>3
<1>5. CASE ServerStops
  <2>1. /\ spc = "select" /\ UNCHANGED <<readfds, writefds>> /\ spc' = "stopped"
        /\ entry' = [c \in Conns |-> FALSE] /\ request' = [c \in Conns |-> NoRequest]
        /\ peer' = [c \in Conns |-> IF entry[c] THEN "gone" ELSE peer[c]]
    BY <1>5 DEF ServerStops
  <2>2. ASSUME NEW c \in Conns PROVE InPass(c)'
    <3>1. handled' = NoConn
      BY <1>1, <2>1 DEF AtWork, handler
    <3> QED
      BY <2>1, <3>1 DEF FlowOf, InPass
  <2>3. ASSUME NEW c \in Conns, entry[c] PROVE FlowOf(c)'
    <3>1. peer'[c] = "gone" /\ cpc[c] # "idle" /\ ~ InHand(c)'
      BY <2>1, <2>3 DEF FlowOf, Unborn, InHand
    <3>2. \A p, i, n : At(c, p, i, n)' => At(c, p, i, n)
      BY <1>1, <3>1 DEF At, client
    <3> QED
      BY <1>1, <2>2, <3>1, <3>2, Lost DEF client
  <2>4. ASSUME NEW c \in Conns, ~ entry[c] PROVE FlowOf(c)'
    <3>1. request[c] = NoRequest /\ request'[c] = request[c] /\ peer'[c] = peer[c]
          /\ entry'[c] = entry[c]
      BY <2>1, <2>4 DEF FlowOf, InPass
    <3>2. InHand(c)' = InHand(c)
      BY <3>1 DEF InHand
    <3> QED
      BY <1>1, <2>2, <3>1, <3>2, Untouched DEF client
  <2> QED
    BY <2>3, <2>4
<1> QED
  BY <1>2, <1>3, <1>4, <1>5

\* A connection is dropped: of c nothing is left that is not answered or sent.
LEMMA DropFlows ==
  ASSUME IInv, Flow, NEW c \in Conns, Drop(c), UNCHANGED <<client, down>>, entry[c],
         InPass(c)'
  PROVE  FlowOf(c)'
<1> USE DEF IInv, TypeOK
<1>1. peer'[c] = "gone" /\ request'[c] = NoRequest /\ up'[c] = <<>>
  BY DEF Drop
<1>2. \A p, i, n : At(c, p, i, n)' => At(c, p, i, n)
  <2>1. ~ InHand(c)' /\ Len(up'[c]) = 0
    BY <1>1 DEF InHand
  <2> HIDE DEF IInv, TypeOK
  <2> QED
    BY <2>1 DEF At, client
<1>3. FlowOf(c) /\ cpc[c] # "idle"
  BY DEF Flow, FlowOf, Unborn
<1> QED
  BY <1>1, <1>2, <1>3, Lost DEF client

LEMMA RestOf ==
  ASSUME NEW S, NEW s \in Seq(S), NEW k \in 1 .. Len(s)
  PROVE  /\ Len(SubSeq(s, k + 1, Len(s))) = Len(s) - k
         /\ \A i \in 1 .. Len(s) - k : SubSeq(s, k + 1, Len(s))[i] = s[i + k]
         /\ s[1] \in S /\ Head(s) = s[1]
<1>1. Len(s) \in Nat /\ k \in Nat /\ 1 <= k /\ k <= Len(s)
  OBVIOUS
<1>2. Len(SubSeq(s, k + 1, Len(s))) = Len(s) - k
  BY <1>1
<1>3. ASSUME NEW i \in 1 .. Len(s) - k PROVE SubSeq(s, k + 1, Len(s))[i] = s[i + k]
  BY <1>1
<1>4. s[1] \in S /\ Head(s) = s[1]
  BY <1>1
<1> QED
  BY <1>2, <1>3, <1>4

\* A recv takes the first request, in place of one that was in hand, and loses
\* the others that it brought.
LEMMA TakeFlows ==
  ASSUME IInv, Flow, NEW c \in Conns, TakeRequest(c), UNCHANGED <<client, down, spc, writefds>>,
         handled \in {c, NoConn}, handled' = NoConn, readfds' = readfds \ {c}, c \notin writefds,
         entry[c], spc = "pass"
  PROVE  Flow'
<1> USE HttpAssumption DEF IInv, TypeOK
<1>1. /\ UNCHANGED <<client, down, spc, writefds>> /\ handled \in {c, NoConn} /\ handled' = NoConn
      /\ readfds' = readfds \ {c} /\ spc = "pass"
  OBVIOUS
<1>2. FlowOf(c)
  BY DEF Flow
<1>3. entry[c] /\ c \notin readfds' /\ c \notin writefds' /\ cpc[c] # "idle"
  BY <1>1, <1>2 DEF FlowOf, InPass, Unborn
<1>4. ASSUME NEW d \in Conns, d # c PROVE FlowOf(d)'
  <2>1. up'[d] = up[d] /\ request'[d] = request[d] /\ entry'[d] = entry[d] /\ peer'[d] = peer[d]
    BY <1>4 DEF TakeRequest, Drop
  <2>2. FlowOf(d)
    BY DEF Flow
  <2>3. InHand(d)' = InHand(d) /\ handled' # d
    BY <1>1, <1>4, <2>1 DEF InHand
  <2>4. InPass(d)'
    BY <1>1, <2>1, <2>2, <2>3 DEF FlowOf, InPass
  <2> QED
    BY <1>1, <2>1, <2>2, <2>3, <2>4, Untouched DEF client
<1>5. CASE up[c] = <<>>
  <2>1. Drop(c)
    BY <1>5 DEF TakeRequest
  <2>2. InPass(c)'
    BY <1>1, <1>3, <2>1 DEF InPass, Drop
  <2>3. FlowOf(c)'
    BY <1>1, <1>3, <2>1, <2>2, DropFlows
  <2> QED
    BY <1>4, <2>3 DEF Flow
<1>6. CASE up[c] # <<>>
  <2>1. PICK got : got \in 1 .. Len(up[c]) /\ up' = [up EXCEPT ![c] = SubSeq(@, got + 1, Len(@))]
    BY <1>6 DEF TakeRequest
  <2>2. request'[c] = Head(up[c]) /\ UNCHANGED <<entry, peer>>
    BY <1>6 DEF TakeRequest
  <2>3. PICK L : L = Len(up[c])
    OBVIOUS
  <2>4. up[c] \in Seq(Requests) /\ up'[c] = SubSeq(up[c], got + 1, Len(up[c]))
    BY <2>1
  <2>5. L \in Nat /\ got \in Int /\ 1 <= got /\ got <= L
    BY <2>1, <2>3, <2>4
  <2> HIDE DEF IInv, TypeOK
  <2>6. /\ Len(up'[c]) = L - got /\ \A i \in 1 .. L - got : up'[c][i] = up[c][i + got]
        /\ request'[c] = up[c][1] /\ request'[c] \in Requests
    <3>1. PICK all : all = up[c]
      OBVIOUS
    <3>2. all \in Seq(Requests) /\ got \in 1 .. Len(all) /\ L = Len(all)
      BY <2>1, <2>3, <2>4, <3>1
    <3>3. /\ Len(SubSeq(all, got + 1, Len(all))) = Len(all) - got
          /\ \A i \in 1 .. Len(all) - got : SubSeq(all, got + 1, Len(all))[i] = all[i + got]
          /\ all[1] \in Requests /\ Head(all) = all[1]
      BY <3>2, RestOf
    <3>4. up'[c] = SubSeq(all, got + 1, Len(all)) /\ request'[c] = Head(all)
      BY <2>2, <2>4, <3>1
    <3> QED
      BY <3>1, <3>2, <3>3, <3>4
  <2>7. InHand(c)'
    BY <1>1, <2>6 DEF InHand
  <2>8. \A n : At(c, 3, 1, n)' <=> At(c, 4, 1, n)
    BY <2>3, <2>5, <2>6, <2>7 DEF At
  <2>9. ASSUME NEW i, NEW n
        PROVE  At(c, 4, i, n)' <=> i \in 1 .. L - got /\ At(c, 4, i + got, n)
    <3>1. At(c, 4, i, n)' <=> i \in 1 .. L - got /\ n = up[c][i + got].n
      BY <2>6 DEF At
    <3>2. i \in 1 .. L - got => i + got \in 1 .. L
      BY <2>5
    <3> QED
      BY <2>3, <3>1, <3>2 DEF At
  <2>10. \A p, i, n : p \in {1, 2} => (At(c, p, i, n)' <=> At(c, p, i, n))
    BY <1>1 DEF At, client
  <2>11. \A p, i, n : At(c, p, i, n)' => p \in 1 .. 4 /\ (p = 3 => i = 1)
    BY DEF At
  <2>12. Ordered(c)'
    <3> DEFINE Came(p, i, q, j) ==
                 \/ p \in {1, 2} /\ q = p /\ j = i
                 \/ p = 3 /\ i = 1 /\ q = 4 /\ j = 1
                 \/ p = 4 /\ i \in 1 .. L - got /\ q = 4 /\ j = i + got
    <3>1. ASSUME NEW p, NEW i, NEW n, At(c, p, i, n)'
          PROVE  \E q, j : At(c, q, j, n) /\ Came(p, i, q, j)
      <4>1. CASE p \in {1, 2}
        BY <2>10, <3>1, <4>1
      <4>2. CASE p = 3
        BY <2>8, <2>11, <3>1, <4>2
      <4>3. CASE p = 4
        BY <2>9, <3>1, <4>3
      <4> QED
        BY <2>11, <3>1, <4>1, <4>2, <4>3
    <3>2. ASSUME NEW p, NEW q, NEW i, NEW j, NEW r, NEW s, NEW m, NEW l,
                 Came(p, i, r, m), Came(q, j, s, l), p < q \/ (p = q /\ i < j)
          PROVE  r < s \/ (r = s /\ m < l)
      BY <2>5, <3>2
    <3> HIDE DEF Came
    <3>4. \A p, i, n : At(c, p, i, n)' => \E q, j : At(c, q, j, n)
      BY <3>1
    <3>5. Ordered(c) /\ asked'[c] = asked[c]
      BY <1>1, <1>2 DEF FlowOf, client
    <3>3. \A p, q, i, j, m, n :
            At(c, p, i, m)' /\ At(c, q, j, n)' /\ (p < q \/ (p = q /\ i < j)) =>
              \E r, s, h, l : At(c, r, h, m) /\ At(c, s, l, n) /\ (r < s \/ (r = s /\ h < l))
      <4> SUFFICES ASSUME NEW p, NEW q, NEW i, NEW j, NEW m, NEW n,
                          At(c, p, i, m)', At(c, q, j, n)', p < q \/ (p = q /\ i < j)
                   PROVE  \E r, s, h, l :
                            At(c, r, h, m) /\ At(c, s, l, n) /\ (r < s \/ (r = s /\ h < l))
        OBVIOUS
      <4>1. PICK r, h : At(c, r, h, m) /\ Came(p, i, r, h)
        BY <3>1
      <4>2. PICK s, l : At(c, s, l, n) /\ Came(q, j, s, l)
        BY <3>1
      <4>3. r < s \/ (r = s /\ h < l)
        BY <3>2, <4>1, <4>2
      <4> QED
        BY <4>1, <4>2, <4>3
    <3> QED
      BY <3>3, <3>4, <3>5, StillOrdered
  <2>13. OneAtATime(c)'
    <3> SUFFICES ASSUME c \notin Pipelining, peer[c] = "open" PROVE OneAtATime(c)'
      BY <2>2 DEF OneAtATime
    <3>1. At(c, 4, 1, up[c][1].n)
      BY <2>3, <2>5 DEF At
    <3>2. cpc[c] = "waiting"
      BY <1>2, <3>1 DEF FlowOf, OneAtATime
    <3>3. PICK p \in 2 .. 4 : \E i : Awaited(c, p, i)
      BY <1>2, <3>2 DEF FlowOf, OneAtATime
    <3>4. PICK i : Awaited(c, p, i)
      BY <3>3
    <3>5. p = 4 /\ i = 1 /\ up[c][1].n = asked[c]
      BY <3>1, <3>4 DEF Awaited
    <3>6. ASSUME NEW q, NEW j, NEW n, q # 1
          PROVE  At(c, q, j, n)' <=> q = 3 /\ j = 1 /\ n = asked'[c]
      <4>1. asked'[c] = asked[c]
        BY <1>1 DEF client
      <4>2. CASE q = 2
        BY <2>10, <3>4, <3>5, <4>2 DEF Awaited
      <4>3. CASE q = 3
        BY <2>8, <2>11, <3>4, <3>5, <4>1, <4>3 DEF Awaited
      <4>4. CASE q = 4
        <5>1. j \in 1 .. L - got => j + got # 1
          BY <2>5
        <5> QED
          BY <2>9, <3>4, <3>5, <4>4, <5>1 DEF Awaited
      <4> QED
        BY <2>11, <3>6, <4>2, <4>3, <4>4
    <3>7. Awaited(c, 3, 1)'
      BY <3>6 DEF Awaited
    <3> QED
      BY <1>1, <1>2, <2>2, <3>2, <3>7 DEF FlowOf, OneAtATime, client
  <2>14. Unborn(c)' /\ InPass(c)'
    BY <1>1, <1>2, <1>3, <2>2 DEF FlowOf, Unborn, InPass, client
  <2>15. FlowOf(c)'
    BY <2>12, <2>13, <2>14 DEF FlowOf
  <2> QED
    BY <1>4, <2>15 DEF Flow
<1> QED
  BY <1>5, <1>6

LEMMA ReadFlows ==
  ASSUME IInv, Flow, NEW c \in Conns, handle_client_http_read(c)
  PROVE  Flow'
<1> USE HttpAssumption
<1>1. /\ UNCHANGED <<client, half, down, lock_file, spc, writefds>>
      /\ c \in readfds /\ readfds' = readfds \ {c} /\ spc = "pass" /\ handled = NoConn
  BY DEF handle_client_http_read, Turn
<1>2. \A d \in Conns : FlowOf(d)
  BY DEF Flow
<1>3. entry[c] /\ c \notin readfds' /\ c \notin writefds
  BY <1>1, <1>2 DEF FlowOf, InPass
<1>4. CASE TakeRequest(c) /\ UNCHANGED handler
  BY <1>1, <1>3, <1>4, TakeFlows DEF handler
<1>5. CASE handled' = c /\ hpc' = "recv" /\ UNCHANGED <<up, request, entry, peer>>
  <2>1. ASSUME NEW d \in Conns PROVE FlowOf(d)'
    <3>1. InHand(d)' = InHand(d)
      BY <1>1, <1>5 DEF InHand
    <3>2. InPass(d)'
      BY <1>1, <1>2, <1>3, <1>5 DEF FlowOf, InPass
    <3> QED
      BY <1>1, <1>2, <1>5, <3>1, <3>2, Untouched DEF client
  <2> QED
    BY <2>1 DEF Flow
<1> QED
  BY <1>4, <1>5 DEF handle_client_http_read

\* A head that comes while the handler waits for it is a request like another.
LEMMA HeadFlows ==
  ASSUME IInv, Flow, HeadComes, handled \in Conns, spc = "pass"
  PROVE  Flow'
<1>1. PICK c \in Conns : c = handled
  OBVIOUS
<1>2. FlowOf(c)
  BY DEF Flow
<1>3. entry[c] /\ c \notin readfds \cup writefds /\ readfds = readfds \ {c}
  BY <1>1, <1>2 DEF FlowOf, InPass
<1> QED
  BY <1>1, <1>3, TakeFlows DEF HeadComes, pass

-------------------------------------------------------------------------------
\* The steps of a handler.

LEMMA WriteFlows ==
  ASSUME IInv, Flow, NEW c \in Conns, handle_client_http_write(c)
  PROVE  Flow'
<1> USE HttpAssumption
<1>1. /\ UNCHANGED <<client, up, down, peer, entry, request, lock_file, spc, readfds>>
      /\ c \in writefds /\ writefds' = writefds \ {c} /\ spc = "pass" /\ handled = NoConn
      /\ handled' = handled \/ (handled' = c /\ hpc' = "begin")
      /\ handled' = handled => UNCHANGED handler
  BY DEF handle_client_http_write, Turn, handler
<1>2. ASSUME NEW d \in Conns PROVE FlowOf(d)'
  <2>1. FlowOf(d)
    BY DEF Flow
  <2>2. handled # d
    BY <1>1
  <2>3. InHand(d)' = InHand(d)
    BY <1>1, <2>2 DEF InHand, handler
  <2>4. InPass(d)'
    <3>1. FlowOf(c)
      BY DEF Flow
    <3> QED
      BY <1>1, <2>1, <2>2, <3>1 DEF FlowOf, InPass
  <2> QED
    BY <1>1, <2>1, <2>3, <2>4, Untouched DEF client
<1> QED
  BY <1>2 DEF Flow

\* A step of the handler that neither sends nor gives up.
LEMMA WorkFlows ==
  ASSUME IInv, Flow, UNCHANGED <<client, up, down, peer, entry, request, pass, handled>>,
         hpc # "send" \/ unsent # 0, hpc' # "send" \/ unsent' # 0
  PROVE  Flow'
<1>1. ASSUME NEW d \in Conns PROVE FlowOf(d)'
  <2>1. FlowOf(d)
    BY DEF Flow
  <2>2. InHand(d)' = InHand(d)
    BY DEF InHand
  <2>3. InPass(d)'
    BY <2>1 DEF FlowOf, InPass, pass
  <2> QED
    BY <2>1, <2>2, <2>3, Untouched DEF client
<1> QED
  BY <1>1 DEF Flow

\* Of the other clients, at the end of a handler or in the middle of it.
LEMMA OthersFlow ==
  ASSUME IInv, Flow, NEW d \in Conns, d # handled, UNCHANGED <<client, spc, readfds, writefds>>,
         handled' \in {handled, NoConn}, down'[d] = down[d], up'[d] = up[d],
         request'[d] = request[d], entry'[d] = entry[d], peer'[d] = peer[d]
  PROVE  FlowOf(d)'
<1>1. FlowOf(d)
  BY DEF Flow
<1>2. handled' # d
  BY HttpAssumption
<1>3. InHand(d)' = InHand(d)
  BY <1>2 DEF InHand
<1>4. InPass(d)'
  BY <1>1, <1>2 DEF FlowOf, InPass
<1> QED
  BY <1>1, <1>3, <1>4, Untouched DEF client

LEMMA ErrorFlows ==
  ASSUME IInv, Flow, ReturnError, handled \in Conns, request[handled] # NoRequest,
         UNCHANGED <<client, down, pass>>
  PROVE  Flow'
<1>1. Drop(handled) /\ handled' = NoConn
  BY DEF ReturnError
<1>2. FlowOf(handled) /\ entry[handled]
  BY DEF Flow, FlowOf, InPass
<1>3. ASSUME NEW c, c = handled PROVE FlowOf(c)'
  <2>1. InPass(c)'
    <3>1. /\ request'[c] = NoRequest /\ c \notin readfds' /\ c \notin writefds'
          /\ handled' # c
      BY <1>1, <1>2, <1>3, HttpAssumption DEF Drop, FlowOf, InPass, pass, IInv, TypeOK
    <3> QED
      BY <3>1 DEF InPass
  <2> QED
    BY <1>1, <1>2, <1>3, <2>1, DropFlows
<1>4. ASSUME NEW d \in Conns, d # handled PROVE FlowOf(d)'
  <2>1. /\ up'[d] = up[d] /\ request'[d] = request[d] /\ entry'[d] = entry[d] /\ peer'[d] = peer[d]
    BY <1>1, <1>4 DEF Drop, IInv, TypeOK
  <2> QED
    BY <1>1, <1>4, <2>1, OthersFlow DEF pass
<1>5. ASSUME NEW d \in Conns PROVE FlowOf(d)'
  BY <1>3, <1>4
<1> QED
  BY <1>5 DEF Flow

\* The request is freed once its response is sent.
LEMMA CleanupFlows ==
  ASSUME IInv, Flow, Cleanup, handled \in Conns, request[handled] # NoRequest
  PROVE  Flow'
<1>1. /\ UNCHANGED <<client, up, down, peer, entry, pass>> /\ hpc = "send" /\ unsent = 0
      /\ request' = [request EXCEPT ![handled] = NoRequest] /\ handled' = NoConn
  BY DEF Cleanup
<1>2. ASSUME NEW c, c = handled PROVE FlowOf(c)'
  <2>1. FlowOf(c) /\ c \in Conns /\ request'[c] = NoRequest
    BY <1>1, <1>2 DEF Flow, IInv, TypeOK
  <2>2. InHand(c)' = InHand(c) /\ ~ InHand(c)
    BY <1>1, <1>2, <2>1 DEF InHand
  <2>3. cpc[c] # "idle"
    BY <1>2, <2>1 DEF FlowOf, Unborn
  <2>4. InPass(c)'
    BY <1>1, <1>2, <2>1 DEF FlowOf, InPass, pass
  <2> QED
    BY <1>1, <2>1, <2>2, <2>3, <2>4, Untouched DEF client
<1>3. ASSUME NEW d \in Conns, d # handled PROVE FlowOf(d)'
  <2>1. request'[d] = request[d]
    BY <1>1, <1>3 DEF IInv, TypeOK
  <2> QED
    BY <1>1, <1>3, <2>1, OthersFlow DEF pass
<1>4. ASSUME NEW d \in Conns PROVE FlowOf(d)'
  BY <1>2, <1>3
<1> QED
  BY <1>4 DEF Flow

\* The last piece takes the request from in hand to sent.
LEMMA SendFlows ==
  ASSUME IInv, Flow, SendPiece, handled \in Conns, request[handled] # NoRequest
  PROVE  Flow'
<1> USE HttpAssumption
<1>1. /\ UNCHANGED <<client, half, lock_file, readfds, writefds>> /\ hpc = "send" /\ unsent > 0
      /\ unsent \in Int
  BY DEF SendPiece, IInv, TypeOK
<1>2. PICK c \in Conns : c = handled
  OBVIOUS
<1>3. FlowOf(c) /\ cpc[c] # "idle" /\ InHand(c)
  BY <1>1, <1>2 DEF Flow, FlowOf, Unborn, InHand
<1>4. CASE /\ peer[handled] = "open" /\ Len(down[handled]) < MaxDown
           /\ down' = [down EXCEPT ![handled] =
                         Append(@, [n |-> request[handled].n, last |-> unsent = 1])]
           /\ unsent' = unsent - 1
           /\ UNCHANGED <<handled, hpc, peer, entry, request, up, spc>>
  <2>1. PICK piece : piece = [n |-> request[c].n, last |-> unsent = 1]
    OBVIOUS
  <2>2. piece.n = request[c].n /\ (piece.last <=> unsent = 1)
    BY <2>1
  <2>3. PICK L : L = Len(down[c])
    OBVIOUS
  <2>4. /\ L \in Nat /\ Len(down'[c]) = L + 1 /\ down'[c][L + 1] = piece
        /\ \A i \in 1 .. L : down'[c][i] = down[c][i]
    <3>1. down[c] \in Seq(PiecesOf) /\ down'[c] = Append(down[c], piece)
      BY <1>2, <1>4, <2>1 DEF IInv, TypeOK
    <3> QED
      BY <2>3, <3>1
  <2>5. InHand(c)' <=> unsent # 1
    BY <1>1, <1>2, <1>4, <1>3 DEF InHand
  <2>6. InPass(c)'
    BY <1>1, <1>3, <1>4 DEF FlowOf, InPass
  <2>7. \A i, n : At(c, 2, i, n)' <=>
          At(c, 2, i, n) \/ (i = L + 1 /\ n = request[c].n /\ unsent = 1)
    <3>1. \A i : i \in 1 .. L + 1 <=> i \in 1 .. L \/ i = L + 1
      BY <2>4
    <3>2. L + 1 \notin 1 .. L
      BY <2>4
    <3> SUFFICES ASSUME NEW i, NEW n
                 PROVE  At(c, 2, i, n)' <=>
                          At(c, 2, i, n) \/ (i = L + 1 /\ n = request[c].n /\ unsent = 1)
      OBVIOUS
    <3>3. CASE i \in 1 .. L
      BY <2>3, <2>4, <3>1, <3>2, <3>3 DEF At
    <3>4. CASE i = L + 1
      BY <2>2, <2>3, <2>4, <3>1, <3>2, <3>4 DEF At
    <3>5. CASE i \notin 1 .. L + 1
      BY <2>3, <2>4, <3>1, <3>5 DEF At
    <3> QED
      BY <3>1, <3>3, <3>4, <3>5
  <2>8. \A p, i, n : p \in {1, 4} => (At(c, p, i, n)' <=> At(c, p, i, n))
    BY <1>1, <1>4 DEF At, client
  <2>9. \A i, n : At(c, 3, i, n) <=> i = 1 /\ n = request[c].n
    BY <1>3 DEF At
  <2>10. \A i, n : At(c, 3, i, n)' <=> i = 1 /\ n = request[c].n /\ unsent # 1
    BY <1>4, <2>5 DEF At
  <2>11. \A p, i, n : At(c, p, i, n)' => p \in 1 .. 4
    BY DEF At
  <2>12. \A i, n : At(c, 2, i, n) => i \in 1 .. L
    BY <2>3 DEF At
  <2>13. Unborn(c)'
    BY <1>1, <1>3, <1>4 DEF FlowOf, Unborn, client
  <2>14. asked'[c] = asked[c] /\ peer' = peer /\ cpc' = cpc /\ answered' = answered
    BY <1>1, <1>4 DEF client
  <2>15. Ordered(c)'
    <3> DEFINE Came(p, i, q, j) ==
                 \/ p = 2 /\ i = L + 1 /\ q = 3 /\ j = 1 /\ unsent = 1
                 \/ p = 2 /\ i \in 1 .. L /\ q = 2 /\ j = i
                 \/ p = 3 /\ unsent # 1 /\ q = 3 /\ j = i
                 \/ p \in {1, 4} /\ q = p /\ j = i
    <3>1. ASSUME NEW p, NEW i, NEW n, At(c, p, i, n)'
          PROVE  \E q, j : At(c, q, j, n) /\ Came(p, i, q, j)
      <4>1. CASE p = 2
        BY <2>7, <2>9, <2>12, <3>1, <4>1
      <4>2. CASE p = 3
        BY <2>9, <2>10, <3>1, <4>2
      <4>3. CASE p \in {1, 4}
        BY <2>8, <3>1, <4>3
      <4> QED
        BY <2>11, <3>1, <4>1, <4>2, <4>3
    <3>2. ASSUME NEW p, NEW q, NEW i, NEW j, NEW r, NEW s, NEW h, NEW l,
                 Came(p, i, r, h), Came(q, j, s, l), p < q \/ (p = q /\ i < j)
          PROVE  r < s \/ (r = s /\ h < l)
      BY <2>4, <3>2
    <3> HIDE DEF Came
    <3>3. \A p, q, i, j, m, n :
            At(c, p, i, m)' /\ At(c, q, j, n)' /\ (p < q \/ (p = q /\ i < j)) =>
              \E r, s, h, l : At(c, r, h, m) /\ At(c, s, l, n) /\ (r < s \/ (r = s /\ h < l))
      <4> SUFFICES ASSUME NEW p, NEW q, NEW i, NEW j, NEW m, NEW n,
                          At(c, p, i, m)', At(c, q, j, n)', p < q \/ (p = q /\ i < j)
                   PROVE  \E r, s, h, l :
                            At(c, r, h, m) /\ At(c, s, l, n) /\ (r < s \/ (r = s /\ h < l))
        OBVIOUS
      <4>1. PICK r, h : At(c, r, h, m) /\ Came(p, i, r, h)
        BY <3>1
      <4>2. PICK s, l : At(c, s, l, n) /\ Came(q, j, s, l)
        BY <3>1
      <4>3. r < s \/ (r = s /\ h < l)
        BY <3>2, <4>1, <4>2
      <4> QED
        BY <4>1, <4>2, <4>3
    <3>4. \A p, i, n : At(c, p, i, n)' => \E q, j : At(c, q, j, n)
      BY <3>1
    <3>5. Ordered(c) /\ asked'[c] = asked[c]
      BY <1>3, <2>14 DEF FlowOf
    <3> QED
      BY <3>3, <3>4, <3>5, StillOrdered
  <2>16. OneAtATime(c)'
    <3> SUFFICES ASSUME c \notin Pipelining, peer[c] = "open" PROVE OneAtATime(c)'
      BY <2>14 DEF OneAtATime
    <3>1. At(c, 3, 1, request[c].n)
      BY <2>9
    <3>2. cpc[c] = "waiting"
      BY <1>3, <3>1 DEF FlowOf, OneAtATime
    <3>3. PICK p \in 2 .. 4 : \E i : Awaited(c, p, i)
      BY <1>3, <3>2 DEF FlowOf, OneAtATime
    <3>4. PICK i : Awaited(c, p, i)
      BY <3>3
    <3>5. p = 3 /\ i = 1 /\ request[c].n = asked[c]
      BY <3>1, <3>4 DEF Awaited
    <3>6. PICK q, j : IF unsent = 1 THEN q = 2 /\ j = L + 1 ELSE q = 3 /\ j = 1
      OBVIOUS
    <3>7. ASSUME NEW r, NEW h, NEW n, r # 1
          PROVE  At(c, r, h, n)' <=> r = q /\ h = j /\ n = asked'[c]
      <4>1. CASE r = 2
        BY <2>7, <2>14, <3>4, <3>5, <3>6, <4>1 DEF Awaited
      <4>2. CASE r = 3
        BY <2>10, <2>14, <3>5, <3>6, <4>2
      <4>3. CASE r = 4
        BY <2>8, <3>4, <3>5, <3>6, <4>3 DEF Awaited
      <4> QED
        BY <2>11, <3>6, <3>7, <4>1, <4>2, <4>3
    <3>8. Awaited(c, q, j)'
      BY <3>7 DEF Awaited
    <3>9. q \in 2 .. 4
      BY <3>6
    <3> QED
      BY <1>3, <2>14, <3>2, <3>8, <3>9 DEF FlowOf, OneAtATime
  <2>17. FlowOf(c)'
    BY <2>6, <2>13, <2>15, <2>16 DEF FlowOf
  <2>18. ASSUME NEW d \in Conns, d # c PROVE FlowOf(d)'
    <3>1. down'[d] = down[d]
      BY <1>2, <1>4, <2>18 DEF IInv, TypeOK
    <3> QED
      BY <1>1, <1>2, <1>4, <2>18, <3>1, OthersFlow
  <2> QED
    BY <2>17, <2>18 DEF Flow
<1>5. CASE /\ peer[handled] = "fin" /\ peer' = [peer EXCEPT ![handled] = "broken"]
           /\ unsent' = unsent - 1
           /\ UNCHANGED <<handled, hpc, down, entry, request, up, spc>>
  <2>1. peer'[c] = "broken" /\ \A d \in Conns \ {c} : peer'[d] = peer[d]
    BY <1>2, <1>5 DEF IInv, TypeOK
  <2>2. \A p, i, n : At(c, p, i, n)' => At(c, p, i, n)
    BY <1>1, <1>3, <1>5 DEF At, client
  <2>3. InPass(c)'
    BY <1>1, <1>3, <1>5 DEF FlowOf, InPass
  <2>4. FlowOf(c)'
    BY <1>1, <1>3, <2>1, <2>2, <2>3, Lost DEF client
  <2>5. ASSUME NEW d \in Conns, d # c PROVE FlowOf(d)'
    BY <1>1, <1>2, <1>5, <2>1, <2>5, OthersFlow
  <2> QED
    BY <2>4, <2>5 DEF Flow
<1>6. CASE ReturnError /\ UNCHANGED <<down, spc>>
  BY <1>1, <1>6, ErrorFlows DEF pass
<1>7. CASE spc' = "killed" /\ UNCHANGED <<handler, down, peer, entry, request, up>>
  <2>1. ASSUME NEW d \in Conns PROVE FlowOf(d)'
    <3>1. FlowOf(d)
      BY DEF Flow
    <3>2. InHand(d)' = InHand(d)
      BY <1>7 DEF InHand, handler
    <3>3. InPass(d)'
      BY <1>1, <1>7, <3>1 DEF FlowOf, InPass, handler
    <3> QED
      BY <1>1, <1>7, <3>1, <3>2, <3>3, Untouched DEF client
  <2> QED
    BY <2>1 DEF Flow
<1> QED
  BY <1>4, <1>5, <1>6, <1>7 DEF SendPiece

LEMMA HandlerFlows ==
  ASSUME IInv, Flow, spc = "pass", HandlerStep
  PROVE  Flow'
<1> USE HttpAssumption
<1>1. /\ hpc # "none" /\ handled \in Conns /\ (~ HeadComes => request[handled] # NoRequest)
  BY DEF IInv, TypeOK, AtWork, HandlerStep, HeadComes, BadRequest, FullPathFails, LockFile,
         File, MissingFile, Listing, SendPiece, Cleanup
<1>12. CASE HeadComes
  BY <1>1, <1>12, HeadFlows
<1> SUFFICES ASSUME ~ HeadComes PROVE Flow'
  BY <1>12
<1>2. ASSUME NEW n \in {1, Pieces}, Respond(n), UNCHANGED <<client, down, pass>>, hpc # "send"
      PROVE  Flow'
  BY <1>2, WorkFlows DEF Respond
<1>3. ASSUME ReturnError, UNCHANGED <<client, down, pass>> PROVE Flow'
  BY <1>1, <1>3, ErrorFlows
<1>4. CASE BadRequest
  BY <1>2, <1>4 DEF BadRequest
<1>5. CASE FullPathFails
  BY <1>3, <1>5 DEF FullPathFails
<1>6. CASE LockFile
  BY <1>6, WorkFlows DEF LockFile
<1>7. CASE File
  BY <1>2, <1>3, <1>7 DEF File, Fails
<1>8. CASE MissingFile
  BY <1>2, <1>8 DEF MissingFile
<1>9. CASE Listing
  BY <1>2, <1>3, <1>9 DEF Listing, Fails
<1>10. CASE SendPiece
  BY <1>1, <1>10, SendFlows
<1>11. CASE Cleanup
  BY <1>1, <1>11, CleanupFlows
<1> QED
  BY <1>4, <1>5, <1>6, <1>7, <1>8, <1>9, <1>10, <1>11 DEF HandlerStep

LEMMA FlowInit == Init => Flow
<1> SUFFICES ASSUME Init, NEW c \in Conns PROVE FlowOf(c)
  BY DEF Flow
<1>1. /\ cpc[c] = "idle" /\ asked[c] = 0 /\ answered[c] = <<>> /\ up[c] = <<>>
      /\ down[c] = <<>> /\ peer[c] = "none" /\ ~ entry[c] /\ request[c] = NoRequest
      /\ readfds = {} /\ writefds = {} /\ handled # c
  BY HttpAssumption DEF Init
<1>2. \A p, i, n : ~ At(c, p, i, n)
  BY <1>1 DEF At, InHand
<1>3. Ordered(c)
  BY <1>2 DEF Ordered
<1>4. OneAtATime(c) /\ Unborn(c) /\ InPass(c)
  BY <1>1 DEF OneAtATime, Unborn, InPass
<1> QED
  BY <1>3, <1>4 DEF FlowOf

LEMMA FlowStep == IInv /\ Flow /\ [Next]_vars => Flow'
<1>1. ASSUME IInv, Flow, UNCHANGED vars PROVE Flow'
  <2>1. ASSUME NEW c \in Conns PROVE FlowOf(c)'
    <3>1. FlowOf(c)
      BY <1>1 DEF Flow
    <3>2. InHand(c)' = InHand(c)
      BY <1>1 DEF InHand, vars, handler
    <3>3. InPass(c)'
      BY <1>1, <3>1 DEF FlowOf, InPass, vars, pass, handler
    <3> QED
      BY <1>1, <3>1, <3>2, <3>3, Untouched DEF vars, client
  <2> QED
    BY <2>1 DEF Flow
<1>2. ASSUME IInv, Flow, NEW c \in Conns,
             Connect(c) \/ SendHalf(c) \/ SendRequest(c) \/ ReadPiece(c) \/ Leave(c)
      PROVE  Flow'
  BY <1>2, ConnectFlows, SendHalfFlows, SendRequestFlows, ReadPieceFlows, LeaveFlows
<1>3. ASSUME IInv, Flow, ServerStep PROVE Flow'
  BY <1>3, LoopFlows, ReadFlows, WriteFlows, HandlerFlows DEF ServerStep
<1>4. ASSUME IInv, Flow, ServerStops PROVE Flow'
  BY <1>4, LoopFlows
<1> QED
  BY <1>1, <1>2, <1>3, <1>4 DEF Next, Terminated

\* The places of the invariant are those of the journey.
LEMMA JourneyIsAt ==
  ASSUME NEW c, TypeOK, c \in Conns
  PROVE  /\ \A x \in Journey(c) : At(c, x[1], x[2], x[3])
         /\ \A p, i, n : At(c, p, i, n) => \E x \in Journey(c) : x[3] = n
<1>1. /\ DOMAIN answered[c] = 1 .. Len(answered[c]) /\ DOMAIN down[c] = 1 .. Len(down[c])
      /\ DOMAIN up[c] = 1 .. Len(up[c])
  BY DEF TypeOK
<1>2. ASSUME NEW x \in Journey(c) PROVE At(c, x[1], x[2], x[3])
  <2>1. CASE \E i \in DOMAIN answered[c] : x = <<1, i, answered[c][i]>>
    BY <1>1, <2>1 DEF At
  <2>2. CASE \E i \in {k \in DOMAIN down[c] : down[c][k].last} : x = <<2, i, down[c][i].n>>
    BY <1>1, <2>2 DEF At
  <2>3. CASE InHand(c) /\ x = <<3, 1, request[c].n>>
    BY <2>3 DEF At
  <2>4. CASE \E i \in DOMAIN up[c] : x = <<4, i, up[c][i].n>>
    BY <1>1, <2>4 DEF At
  <2> QED
    BY <2>1, <2>2, <2>3, <2>4 DEF Journey
<1>3. ASSUME NEW p, NEW i, NEW n, At(c, p, i, n) PROVE <<p, i, n>> \in Journey(c)
  BY <1>1, <1>3 DEF At, Journey
<1>4. ASSUME NEW p, NEW i, NEW n, At(c, p, i, n) PROVE \E x \in Journey(c) : x[3] = n
  <2>1. <<p, i, n>> \in Journey(c)
    BY <1>3, <1>4
  <2>2. <<p, i, n>>[3] = n
    OBVIOUS
  <2> QED
    BY <2>1, <2>2
<1> QED
  BY <1>2, <1>4

\* No response comes twice or before that of an earlier request, whatever the
\* client, the socket and the failing calls do, and a client that waits for each
\* response loses no request as long as it is there.
THEOREM InOrder == Spec => []OnceAndInOrder
<1>1. IInv /\ Flow => OnceAndInOrder
  <2> SUFFICES ASSUME IInv, Flow, NEW c \in Conns
               PROVE  /\ \A x, y \in Journey(c) : AheadOf(x, y) => x[3] < y[3]
                      /\ c \notin Pipelining /\ peer[c] = "open" =>
                           {x[3] : x \in Journey(c)} = 1 .. asked[c]
    BY DEF OnceAndInOrder
  <2>1. FlowOf(c) /\ TypeOK
    BY DEF Flow, IInv
  <2>2. ASSUME NEW x \in Journey(c), NEW y \in Journey(c), AheadOf(x, y) PROVE x[3] < y[3]
    <3>1. At(c, x[1], x[2], x[3]) /\ At(c, y[1], y[2], y[3])
      BY <2>1, JourneyIsAt
    <3> QED
      BY <2>1, <2>2, <3>1 DEF AheadOf, FlowOf, Ordered
  <2>3. ASSUME c \notin Pipelining, peer[c] = "open"
        PROVE  {x[3] : x \in Journey(c)} = 1 .. asked[c]
    <3>1. /\ Len(answered[c]) = IF cpc[c] = "waiting" THEN asked[c] - 1 ELSE asked[c]
          /\ \A i \in 1 .. Len(answered[c]) : answered[c][i] = i
          /\ cpc[c] # "waiting" => \A p, i, n : At(c, p, i, n) => p = 1
          /\ cpc[c] = "waiting" => \E p \in 2 .. 4 : \E i : Awaited(c, p, i)
      BY <2>1, <2>3 DEF FlowOf, OneAtATime
    <3>2. asked[c] \in Nat /\ Len(answered[c]) \in Nat
      BY <2>1 DEF TypeOK
    <3>3. ASSUME NEW p, NEW i, NEW n, At(c, p, i, n) PROVE n \in 1 .. asked[c]
      BY <2>1, <3>2, <3>3, AtTypes DEF FlowOf, Ordered
    <3>4. ASSUME NEW n \in 1 .. asked[c] PROVE \E p, i : At(c, p, i, n)
      <4>1. CASE n \in 1 .. Len(answered[c])
        BY <3>1, <4>1 DEF At
      <4>2. CASE n \notin 1 .. Len(answered[c])
        <5>1. cpc[c] = "waiting" /\ n = asked[c]
          BY <3>1, <3>2, <4>2
        <5>2. PICK p \in 2 .. 4 : \E i : Awaited(c, p, i)
          BY <3>1, <5>1
        <5>3. PICK i : Awaited(c, p, i)
          BY <5>2
        <5>4. At(c, p, i, n)
          BY <5>1, <5>3 DEF Awaited
        <5> QED
          BY <5>4
      <4> QED
        BY <4>1, <4>2
    <3>5. \A x \in Journey(c) : x[3] \in 1 .. asked[c]
      BY <2>1, <3>3, JourneyIsAt
    <3>6. \A n \in 1 .. asked[c] : \E x \in Journey(c) : x[3] = n
      BY <2>1, <3>4, JourneyIsAt
    <3> QED
      BY <3>5, <3>6
  <2> QED
    BY <2>2, <2>3
<1> QED
  BY <1>1, FlowInit, FlowStep, HttpInv, PTL DEF Spec
===============================================================================
