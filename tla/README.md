# Verification of the socket server, its pool and its clients

TLA+ models of the C program under `src/src` (a `select` server with a thread
pool, a TCP client and a heartbeat client), the TLC configurations that check
them on small instances, and proofs checked by TLAPS that hold for instances of
any size. `PROJECT.json` lists the runs, maps every definition to the lines it
stands for, and lists the hazards the properties are for.

Check one run with `tlc -workers 2 -config X.cfg M` (modules and configurations
in the table of runs), the proofs with `tlapm M.tla` for `M` among `Threadpool_proofs`,
`Heartbeat_proofs`, `PingPong_proofs`, `HttpService_proofs`, `Server_proofs`, `Framing_proofs`, `HttpExchange_proofs` and `Setup_proofs`.

## The system

| Component | Where | State it keeps | Operations | What is hard |
|---|---|---|---|---|
| Thread pool | `shared/threadpool.c` | ring of task slots (`head`, `tail`, `count`), `shutdown`, `started`; per slot `result`, `done`, a mutex and a condition variable | `threadpool_create`, `_add`, `_wait`, `_destroy`, worker loop | workers and owner interleave; some accesses are made without a lock |
| Main loop | `server.c`, `main` and `handle_connections` | `master`, `max_fd`, the three ready sets, `clients[]`, `http_clients[]`, `stop`, `ret_val` | accept, one handler call per ready descriptor, exceptions, cleanup | the snapshot of `select` is used while visits close and open descriptors; SIGINT |
| Simple TCP service | `handle_client_simple_read/_write`, `client.c` | one `Simple_Packet` per client | read a packet; answer PING with PONG, anything else with a greeting | the client acts, and leaves, between `select` and the handler |
| Heartbeat service | `handle_client_heartbeat_read/_write`, `heartbeat_client.c` | one packet and one address for all clients; a client's `retries` | read a datagram, send an ACK; send, wait, retry, give up | UDP loses, delays and reorders; one buffer for everybody |
| HTTP service | `handle_client_http_read/_write`, `client.c` with a resource | request and response per client, `lock_file` | parse a request; send a file, the listing, 400 or 404 | error paths that keep `lock_file`; a request replaced before it is answered |
| HTTP messages | `shared/http.c`, `handle_connection_http` | header array with index and count; a message and what is read of it | build, serialise, send, receive, parse; save a file | head and body cut anywhere, counted slots that are not set, one byte too many |
| Packet framing | `shared/common.c` | what is received and still to send | `recvall`, `sendall`, packets | partial transfers, end of stream in the middle |
| Binary packing | `shared/pack.c` | none | `pack`, `unpack` | widths and signs |
| Arguments, socket setup | `main`, `parse_arguments`, `setup_*` of the three programs | configuration, descriptors | read the arguments; resolve, make, bind, listen, connect | a step fails and what was made before must go; other processes at the same addresses; restarts |

The main thread owns everything but the pool. It makes passes: copy `master`
into three sets, sleep a second, `select`, visit the ready descriptors in
ascending order. A visit accepts a connection, or hands one handler to the pool
(`threadpool_add`) and waits for it (`threadpool_wait`). The handlers run on
worker threads and share the client's record with the main thread; nothing but
the pool synchronises them. Clients act at any time.

`class_repo`, `legacy` and `ejercicios_tarea` are course examples and earlier
versions. `class_repo/thread-pool` is the pool that the program's pool was
adapted from; its header documents the interface.

## The modules

| Module | Models | Abstract specification | Proofs |
|---|---|---|---|
| `Threadpool` | `threadpool.c` | `SyncCall` | `Threadpool_proofs` |
| `SyncCall` | a procedure call: what the server takes the pool for | | |
| `Server` | `main`, `handle_connections`, `handle_sigint`, the client tables | | `Server_proofs` |
| `PingPong` | the simple handlers, the part of the loop that calls them, `client.c` | | `PingPong_proofs` |
| `Heartbeat` | the heartbeat handlers, the part of the loop that calls them, `heartbeat_client.c` | | `Heartbeat_proofs` |
| `HttpService` | the HTTP handlers, the part of the loop that calls them, their clients | | `HttpService_proofs` |
| `Pack` | the integers and strings of `pack.c`, as functions | `Values`, `Stored` | `Framing_proofs` |
| `Framing` | `sendall`, `recvall`, `send_simple_packet`, `recv_simple_packet`, over `Pack` | `PacketQueue` | `Framing_proofs` |
| `PacketQueue` | whole packets in order: what the services take a connection for | | |
| `Headers` | the header arrays of `http.c`, as functions | | `HttpExchange_proofs` |
| `HttpExchange` | one request and its response, `http.c` and `handle_connection_http`, over `Headers` | | `HttpExchange_proofs` |
| `Arguments` | defaults and `parse_arguments` of the three programs, as functions | `LineRead` (in `MCSetup`) | `Setup_proofs` |
| `Setup` | the three `main`s up to their work, the `setup_*` functions, over `Arguments` | | `Setup_proofs` |
| `MC...` | instances for TLC, one for each module with runs | | |

How they fit together: `Threadpool` is shown to implement `SyncCall`: between
`threadpool_add` and the return of `threadpool_wait` one function runs, once, on
one worker, nothing else runs meanwhile, and its result comes back. This is what
allows `Server`, `PingPong` and `Heartbeat` to take a handler call for one step of
the server, and `HttpService` to have one handler at work at a time. `Server` models the loop for any handlers, by the results they may
give and with the descriptors in full; `PingPong`, `Heartbeat` and `HttpService` model one
service each, with its clients and its network, and only the part of the loop
that service sees. `Framing` is shown to implement `PacketQueue`: this is what allows `PingPong` to
send and receive packets as wholes. `HttpExchange` does for one client and one handler what
`HttpService` leaves out, the messages and their bytes, and leaves out what `HttpService` has, the other
clients and the pool. `Setup` ends where the others begin, with listening sockets and configured clients.

The operators whose comment begins with "Mutant:" are wrong versions of the one
they precede. No specification uses them; they show that the properties can tell
the difference.

### Threadpool

Every stretch of code under `pool->lock` or a slot's `task_mutex` is one step;
every access without a lock is a step of its own. So a worker goes through
`check` (the locked test of lines 225-244: `WorkerSleep`, `WorkerLeave`,
`WorkerTake`), `invoke` (it reads `function` and `argument` from the slot),
`running` (it calls, then writes `result`), `finish` (`done` and the signal, under
`task_mutex`), and at the end `started--` in two steps, read and write. The owner
goes through `threadpool_create` thread by thread, then calls `threadpool_add`,
`threadpool_wait` and `threadpool_destroy` as it likes; with `AwaitEach` every add is
followed by a wait, as in `server.c`. Condition variables may wake up spuriously.
`pthread_create` may fail; then the destroy goes on to join a thread id that was never
written, and `JoinUnstarted` leaves open whether that returns an error or crashes. If the pool cannot be allocated or
initialised, `threadpool_create` returns NULL before its loop and the server does not start: that is `CreatePool` of `Setup`. The
destroy is called once, so that its test for a pool already shut down (line 159) is never true.

A task is its (function, argument) pair, added at most once; its result is
identified with the task. Failures of mutex and condition operations are left
out: the code checks some of them, but none can occur on initialised objects.

### Server

`pc` is the place in `main`: `boot`, `setup`, `start`, then `select` and `pass` in turn,
`cleanup`, `destroy` and an end. Descriptors are numbers, and the kernel gives the
lowest free one; a connection is a model value that goes from `new` over `pending`
and `open` to `gone`. `Select` takes the snapshot, with any choice of sockets that
have room, of a datagram, and of urgent data. `Visit` is the loop's step to the next
descriptor, with the countdown; it is part of `Accept`, `ReadClient`, `WriteClient`,
`Heartbeat` and `Exception`, which are the branches of the loop body. A handler call is
given by its outcome: refused by `threadpool_add`, no result (both in `CallFails`), error, closed, success.
Each leads to what the code does after it (`AfterClientCall`).

A handler may also not come back, and the main thread with it: then the visit is not enabled. A read handler does not come back from
half a message (`data` is "part"). An HTTP write handler does not if it has a resource to send (`request`) and
the client does not read it (`full`, set by `StopReading` and taken back by `ReadOn`), or if an earlier call left `lock_file` locked,
which those that fail may do (`Returns`). The answer to a request that names no resource fits into the socket and needs no mutex. A send to a client that has closed may
raise SIGPIPE, which ends the process: `pc` is "killed". With `Again` a client connects again when its connection is gone, as another one,
so that the mutex it left locked is wanted again. `HttpService` has these handlers in detail; `Server` has what they do to the loop.

`Sigint` is the default action before `setup_signals`, else `stop = 1`; a `select`
that it interrupts returns an error. It does not wake a handler: `signal` installs it with SA_RESTART, so that `recv`, `send` and
the wait for a mutex go on.

### PingPong

`down` and `up` are the packets between a client and its socket, `peer` is what the
server's kernel knows about the client (`open`; after the client's close `fin`, or `reset` if it left data unread, or `crossed` if a
packet was still under way to it; `broken` after a write to a closed peer; `gone` after the
server's own `close`). The first write to a `reset` socket returns an error; a write to a `broken`
or `crossed` one, which has seen the end of the stream and then a reset, raises SIGPIPE and kills
the server (the signal has its default action). A pass is the snapshot (`readfds`, `writefds`: what is
only writable) and one step per handler call, in any order: `PingPong` does not
depend on the order of descriptors, which `Server` has. `HandlerFails` is a handler that cannot allocate what it needs; its client is dropped. Each
client sends one PING, as `client.c` does, so that nobody keeps a socket readable for ever here.

### Heartbeat

`packet` and `addr` are the two fields of the server's `Heartbeat_Data`. `up`, `acks` and
`sockbuf` are the network; since datagrams are counted and taken in any order, loss,
delay and reordering are all there. An ACK under way and one in the client's
socket are the same thing: the client may time out before either. `Strays` are
datagrams of other programs: some other text, or nothing at all. `ReadFails` is a read handler without memory for a packet, or whose
`recvfrom` fails: the packet is gone and the datagram may still be there. A client takes a datagram that is not an ACK for no answer
and sends on to wherever it came from (`heartbeat_client.c:311`), which for the server is a loss; that a stranger
sends a client the text "ACK" is left out.

### HttpService

The connections, the passes and the socket states are those of `PingPong`; the handlers are finer,
since a response is as long as a file. A client may send a part of a head (`SendHalf`) and the rest at any time or never; a read handler that
finds it stays in `recv` (`hpc`) until the head is whole or the stream ends (`HeadComes`). Else `handle_client_http_read` keeps the first of the requests one `recv`
returned, in place of any request it had. `handle_client_http_write` goes through `begin`, `locked`
(`lock_file` is held: `File`, `MissingFile`, `Listing`) and `send`, where every call of `send` is a step
(`SendPiece`) that blocks while the socket is full; `Cleanup` frees request and response. `FailingCalls`
are the calls that may fail, each with what its error path does to `lock_file` and the client. A failing
allocation of a `Thread_Result` ends the loop and is in `Server`. `Pipelining` are the connections whose
clients send without waiting; the client of `client.c` sends one request and waits.

### Pack, Framing, PacketQueue

A byte is a number below `Base`; shifts are divisions by it. `pack` and `unpack` take a format as a
sequence of letters, each with the number in front of it; `unpack` returns what the code stores through its pointers.
The sender is `idle` or in `sendall`, the receiver in one of its two `recvall`s, and one call of `send` or
`recv` is one step that moves as many bytes as it likes. The length goes through `pack` and `unpack`.
The sender may pause or stop anywhere, the connection may fail, allocations too. A packet counts as
sent when its last byte is given to `send`. `LengthReceived` and `DataReceived` are the code behind the two
`recvall`s, `StreamEnded` all results that are not positive at the end of the stream, which the callers treat alike.

### Headers, HttpExchange

A header array is its slots, as many as `header_count` says, and `header_index`. A message is a sequence of tokens: a start
line, header lines, the blank line, bytes of the body; a line has a colon or not, which is all that the parser looks at (`IsHeader`). `colon` says whether the name of the
resource has one, in which case the request line passes for a header. The client goes through `build`, `send`, `head`, `body`,
`got` and an end; the server starts in `head` and goes on through `body`, `got`, `send`, and then
waits for the next request, which never comes. `RecvHead` is a `recv` of `read_until_double_end_line`, which may bring
bytes of the body; `ReceivedHead` parses and computes `extra`; `RecvBody` is a `recv` of the `recvall` for the rest.
`Garbage` is memory nobody wrote: the last byte of every response, and the end of a body that came short. A close with
bytes left unread is a reset for the other side. Each process may be ended at any moment (`Stops`),
which also stands for a crash at an allocation whose result the code does not look at.

### Arguments, Setup

`parse_arguments` is a fold of `Turn` over the words, with the index of the next word that counts, since a turn may
step over one. In `Setup` every process may run the programs of `MayRun` again and again; `pc` is the call to the library or the kernel it is at,
`call` the setup it is in. The kernel's rules for `bind`, `listen` and `connect` on addresses with `SO_REUSEADDR`, and
connections that linger after a listener's end, are external, and as coarse as the properties allow. A
process that works may end at any time; `socket`, `setsockopt`, `getaddrinfo`, `listen`, `connect` may fail
at any time; `bind` fails only if the address is taken, lingering or foreign.

## Runs

| Run | Module | Instance | What it shows |
|---|---|---|---|
| `pool` | `MCThreadpool` | 3 workers, 3 tasks, ring of 1, every add awaited, fair | one handler at a time, own results, nothing refused or dropped, every task answered, every destroy over; the pool implements `SyncCall` |
| `pool_queued` | | 3 workers, 3 tasks, ring of 2, owner need not wait | no queued task overwritten |
| `pool_free_lost` | | 2 workers | violation: the unlocked `started--` loses a decrement and the pool is not released |
| `server` | `MCServer` | 2 connections on 2 ports, clients that stall, one that connects again, urgent data, fair | tables and sockets agree, the snapshot stays true, nobody is skipped, clean exit; every client is noticed and `stop` ends the program, unless it stands still |
| `pingpong` | `MCPingPong` | 2 clients, 2 packets of room, fair | SIGPIPE only when a packet crosses the close, one PONG per PING, clients are forgotten, clients finish |
| `pingpong_reply` | | 2 clients | violation: a second greeting is taken for the PONG |
| `heartbeat` | `MCHeartbeat` | 2 clients, 1 stranger, 3 attempts, fair | no blocking read, packet and address belong together, ACKs are earned, giving up after exactly 3 silent attempts, a dead server is noticed, a heartbeat at hand is answered |
| `http` | `MCHttpService` | 2 connections, one pipelines; 2 requests each, in halves or whole, 3 pieces per response, room for 1, failing calls, fair | requests are answered at most once and in order, none of a client that waits is lost, and it is never left waiting, unless a handler waits for ever, for a client or for a mutex left locked |
| `http_sigpipe` | | the same | violation: a client that closes while its response is sent ends the server |
| `framing` | `MCFraming` | packets of 1 and 4 bytes, up to 3, room for 9 bytes, bytes of 2 bits | the bytes received are those of the packets sent, whole and in order; `PacketQueue` is implemented; every format comes back, for all its values |
| `exchange` | `MCHttpExchange` | 4 kinds of request, bodies of 0 to 4 bytes, room for 4 tokens, a buffer of 8 | headers arrive whole, with the request line among them if it has a colon, bodies fit, the file is the resource, both sides come to an end |
| `setup` | `MCSetup` | 2 servers and 1 client or heartbeat client, 9 command lines, restarts; all lines of up to 4 of 8 words | a working server has its sockets, no stray ones, clients meet their service, only living sockets refuse an address, a line is its pairs |

### Why the bounds are enough to be interesting

- Pool: a ring of one slot makes every task reuse the slot of the one before, the
  worst case for the unlocked accesses; three workers let one run, one wait and one
  leave; with two slots and three tasks the ring is full and wraps around.
- Server: `FdLimit` leaves two descriptors behind the three sockets, so a number
  passes from one connection to another, in the same table and in the other one. That `accept` finds
  no descriptor left is among its outcomes. `UrgentFds` bounds on which descriptors urgent
  data comes, and it comes on one at a time: one listener and one client
  descriptor, and no datagram in the same pass. A client's data is nothing, half a message or a whole one. The HTTP client comes
  again and again, so that the mutex it left locked can stop it; one simple client is enough to be stopped by it, and to stop it.
- PingPong: two packets of room are the least that let a second greeting arrive
  before the answer; two clients share each snapshot.
- Heartbeat: one datagram under way per client and direction and one in the server's socket let both
  clients' heartbeats and a stranger's datagram meet in the server's one packet and address, and let an
  ACK be late by any number of attempts.
- HTTP: with room for one piece and three pieces to send, a handler blocks twice in every response, and
  a client may close before each piece. Two requests are enough for a second one to replace the first,
  before or after it was read. All of the calls that may fail do.
- Framing: the longer packet takes 8 bytes on the wire and the shorter 5, so that with room for 9 a `recv` can get
  the end of one packet with the beginning of the next, and `send` blocks. With `Base` 4 every
  value of 16 bits' analogue, and of 4 bytes, is evaluated; the theorems of `Framing_proofs` are for every base.
- Exchange: room for 4 tokens is less than any message, and the buffer of 8 takes a head of 5 and the body with it, in part or
  whole. No head is longer than the buffer, in which case the code goes on with what it has.
- Setup: the second server may have a port of the first, or all of them; a host with two addresses, one
  of them foreign, makes the loop go round. The client's command lines are both modes and one that is refused.

The bounds `MaxDown`, `MaxInFlight`, `SocketBuffer`, `FdLimit` and `UrgentFds` are constants of the
modules. The theorems hold for every value of those they mention.

### Fairness

- Pool: the owner and each worker, as threads that run, are weakly fair in the
  steps that complete a call; a spurious wakeup is never owed, nor that the owner adds or destroys.
  Functions return: the handlers that block are in the other modules.
- Server: the main thread takes its next step if it can (weak fairness of `Main`). Nothing is assumed of the clients. One that
  sent half a message and stops, or that does not read its response, stops the program, and so does the mutex left locked; `EveryClientServed` and
  `StopEnds` say so themselves (`StandsStill`): either the program waits, from some moment on, for one and the same client or for the mutex, or everybody
  is noticed and `stop` ends it. A client that goes on now and then does no harm.
- PingPong: the server makes passes; a client that can receive or send does; one whose connection
  the server has closed, or that outlives it, gets the end of the stream (`Dropped`). Any other may leave, or not.
- HTTP: the server takes its next step if it can. Again nothing is assumed of the clients, which may stop in the middle of a head, stop reading, or not
  close; `ClientsAnswered` names the one case in which that matters, a handler that waits for the same client for ever (`HeldBy`), and
  the other way for a handler not to come back, a mutex that was left locked (`LockLost`).
- Heartbeat: the server makes passes until it is stopped; a client in `recvfrom`
  receives or times out (`SO_RCVTIMEO`). The network owes nothing.
- Framing: the receiver's calls return when there is something to return. The sender may pause for ever.
- Exchange: both processes take their next step if they can. Ending from outside and failing allocations are never owed.

## Findings

Each is a run that TLC must find violated; the quotations are in `PROJECT.json`.

1. `pool_free_lost`: `started--` without the lock (`threadpool.c:256`).
2. `pingpong_reply`: the answer to a PING may be a second greeting (`server.c:915`).
3. `http_sigpipe`: a client that closes while it is answered ends the server (`common.c:117`).

Observations that no run states as a violation; those marked * are visible in the models, as an assumption or
as a case that a property lets through.

- * One client that stops in the middle of a message, or does not read its response, stops the server: the handler blocks in `recv` or `send`, the main thread in
  `threadpool_wait` (`server.c:616`, `common.c:76`, `117`, `http.c:972`), and SIGINT does not end it. `StandsStill` and `HeldBy` name the case.
- * A SIGINT between `setup_signals` and `stop = 0` is forgotten (`server.c:432`). One that interrupts `select` ends the program through its error path, which
  does not destroy the pool (`server.c:101`).
- * The parser of headers takes every line with a colon, the request line included (`http.c:226`, `474`): with a resource such as `a:b`
  the server has a header that nobody sent. `HeadersWhole` names it.
- * The main function of the server looks at the wrong descriptor after the third setup (`server.c:85`): without an HTTP
  socket it goes on, prints that there is one, and puts -1 into an `fd_set`. `ReadyToServe` names the case.
- * A socket is left open when `setsockopt` or `listen` fails (`server.c:252`, `278`, `339`); socket and data of the heartbeat client when
  a later step fails (`heartbeat_client.c:206`, `218`). `NoStraySocket` names what a program that works may have kept.
- * A body that comes short is taken for the whole (`http.c:589`, `941`), since `recvall` is only asked whether it got anything; the
  assignment wants "el archivo de imagen completo" (`consignas.md:51`). `FileIsResource` names the case.
- * Every response has a byte too many, since the status counts `sizeof(int)` characters (`http.c:717`).
- * A failing `opendir`, or no memory for the text of a size, leaves `lock_file` locked (`server.c:1346`, `1240`). The next handler that
  wants it waits for ever, and the main thread with it. `LockLost` names the case in `Server` and `HttpService`; `LockReleased` proves that no other error path leads to it.
- The words of a command line are copied with `strcpy` into arrays of `INET_ADDRSTRLEN` and `PORTSTRLEN` characters whatever their length
  (`server.c:148`, `client.c:123`, `heartbeat_client.c:85`); the words of `Arguments` fit.
- A string of exactly as many characters as its format allows is not cut, and its terminator is written behind them (`pack.c:509`).
- `recvall` writes a zero byte behind a buffer that is full, `length_buffer` above all (`common.c:91`), `unpack` a `long` into
  an `int32_t` (`common.c:261`), `read_until_double_end_line` behind the buffer when a head fills it (`http.c:986`), and
  `sprintf` a size of four digits or more into four bytes (`server.c:1239`).
- `add_header` leaves a freed key in its slot when the value cannot be allocated, and its caller frees it again (`http.c:95`, `236`).
- Leaks: the former packet (`server.c:916`, `heartbeat_client.c:320`), `headers_buffer` (`http.c:405`), the buffer of a packet that could not be sent (`common.c:225`).
- `THREADPOOL_GRACEFUL` has the value of an immediate shutdown (`threadpool.h:18`), so a graceful destroy would drop queued tasks;
  the server never has one then, as `DestroyDropsNothing` shows.
- Descriptor 0 counts as a failure in all three programs; `--threads 0` and `--queue 0` are accepted and end in a wait for ever and a division by zero.
- A second server may share the UDP port with the first, as `SO_REUSEADDR` on Linux allows: `InTheWay` has it.

## Proofs

**Pool** (`Threadpool_proofs`). `TypeOK` and `RingInv` (`tail = (head + count) % QueueSize`) are proved for
any workers, tasks and ring size, whether or not the owner waits. Everything else assumes `AwaitEach = TRUE`, the server's use, and rests on
`CallInv`: the pool is in one of a few phases of one call. When the owner is not
calling, the ring is empty and no worker is busy; during a call the task is queued
(count is 1 and its slot holds it), or taken by exactly one worker, whose slot and task are
the owner's, or finished (its slot is done and holds its result). `TypeOK`, `RingInv` and `CallInv`
together are inductive; the properties alone are not, e.g. `HandlerExclusive` says
nothing about a second task in the ring. `HandlerExclusive`, `OwnResult`, `NeverRefused`, `NoLostWakeup` and
`DestroyDropsNothing` follow. `PoolIsSyncCall` is the refinement: the phase of
the call maps to the stage of `SyncCall`, and every step of the pool is a step or a stutter of it.

**Server** (`Server_proofs`). The inductive invariant is `TypeOK`, `TablesAgree`, `SnapshotFresh`,
`NobodySkipped`, `CleanExit` and `Early` (before the loop there is no client).
In `CleanExit` an exit is every end that is not a kill; before the loop it follows from `Early`. `TablesAgree` is the core: it makes the descriptor that accept gives one that is in no
table, so that a snapshot taken before it cannot contain it; `SnapshotFresh` needs it
for the visits that close. `NobodySkipped` needs that `select_ret` starts as the sum of three
cardinalities, at least that of the union (`UnionBound`, from the library's theorems on finite sets).

**Heartbeat** (`Heartbeat_proofs`). `IInv` joins `TypeOK`, `ReadHasData`, `PacketMatchesAddr`, `AcksEarned`
and `SilenceCounted`, which ties the counter `retries` to the number of
attempts since the last ACK in each state of a client; `GivesUpWhenSilent` follows.

**PingPong** (`PingPong_proofs`). `IInv` joins `TypeOK`, `SnapshotIsValid`, `KilledOnlyByCrossing`, `Halves` (no socket is both to be read and to be
written), `Promised` (a socket to be written has room, or its client is gone since but it was not written to after that) and
`Strange` (nothing is kept of a client that did not connect). `NoPongTwice` has a second invariant: PONGs under way, the PONG that
was received, PINGs under way and a PING that is the server's packet are together at most one, and none before the client asked.

**HTTP** (`HttpService_proofs`). `IInv` is `TypeOK`, with the places of the handler against the request it works on, and the state of `lock_file`
against the place of the handler for all error paths but `opendir` and `size_str`; from it `LockReleased`. For `InOrder` the invariant `Flow`
speaks of one client at a time. A request, later its response, is at a position of one of four places: read by the client, on the way to it, in the
server's hands, on the way to the server (`At`). `Ordered` says that numbers grow from the last place to the first. `OneAtATime`, for a client that waits, says
that it has all responses but the one it waits for, and that this one is at exactly one place. What a step must not disturb is in `Unborn` (nothing is kept of a client that
did not connect) and `InPass` (a pass visits a socket once, and only one that has an entry: else the request in hand could be replaced while a handler
works on it). A close only takes requests away (`Lost`), a step of the flow moves one on (`StillOrdered`).

**Pack** (first part of `Framing_proofs`). The argument goes byte by byte: a number is `Base` times what a shift leaves plus its low byte (`DivMod`), so
what the bytes hold is the number up to multiples of a power of `Base` (`Holds`, `OneByteMore`); the multiple is 0
for an unsigned number that fits and 0 or -1 for a signed one, which is what `Signed` undoes (`SignedFits`). Two, four and eight
bytes follow from each other. `StringsRoundTrip` asks that the length fits into two bytes. `FormatRoundTrips` is about formats of any number of
items: what `pack` has written after each item is a `Chain` of byte strings, `unpack` is at the same place of the chain after each item (`Splits`),
and what it skips is what the item took (`Remainder`), also if a string was cut. Both are functions over the
items; what holds of all their values is shown for the least item for which it would not (`LeastNumber`).

**Framing** (`Framing_proofs`). All that was ever given to `sendall` is a chain of serialised packets. `IInv` says where the receiver is in
it: behind the packets it handed over come the bytes it has of the next one, those under way (or lost, when the connection failed) and those `sendall` has left, and together they
are the rest of the chain (`Located`). `InStep` is what a reader sees of this: the bytes handed over, received, under way and left are `Stream(Begun)`, as they were begun. It is not inductive, since it
says nothing about where in `got` a packet ends or about bytes lost; `StreamIsChain` and `StreamIsLink` take it from the chain. From the place follows which bytes `recv`
brings (`SamePlace`, `Cut`); from `FormatRoundTrips`, that four of them are the length of the packet (`LengthReadBack`). `ImplementsQueue` follows: the
buffer is a whole packet when it is handed over (`DataIsThere`), and the stream can end only behind the last one (`EndIsTheEnd`). `FormatsCorrect` is the
formats of the `framing` run, now for bytes of any width. The packets are assumed to be shorter than a 32-bit number says (`FramingAssumption`), as
`sendall` takes their size as an `int`.

**HttpExchange** (`HttpExchange_proofs`). First the header arrays, whose two loops are functions over the lines. `Filled` is an array with some
slots set and the rest not: `add_header` takes it to one with one more (`OneMore`), so that an array to which headers are added one by one is `Full` (`Added`), and
so is what the parser makes of a start line and header lines (`Parsed`), which begins with a slot too many: that slot stays unset and is cut off, or takes the start line
if that has a colon (`Found`). That holds for any lines; where a loop would first
go wrong is again the least turn. Then the messages: what each side is sent is a start line, its header lines, a blank line and what comes `Behind` it, with the
byte too many (`MessageTo`, `Serialized`), and whatever front of it a reader has, if a blank line is in it, the parser finds the lines that were sent and the front of the rest (`HeadRead`).
`IInv` says what the four properties leave open. `Reading`: what a side has read is a front of its message, and behind it come, in this order, what is under way
(or was lost, after a reset) and what the other side has left to send (`Coming`); a side that parsed a message has the other's start line, headers and length.
`Turns`: the server speaks only when it has the whole request, which is all the client says, so that nothing is under way to a server that works on it. `Saving`: the body the client
takes is whole, or `CutShort` because the server ended in the middle. Only then can `BodyEnded` fill up a body, since an end of the stream with nothing left
to send comes behind the last byte (`BodyOf`). Ends of all kinds come to one lemma, `LeaveKeeps`.

**Setup** (`Setup_proofs`). A process looks at no variable of another; only the kernel compares their sockets. So `IInv` is one formula about each
process: where it can be (`Labelled`), which descriptors `main` has and what it may rely on (`KnownSockets`), the addresses left to try (`Trying`), the socket of
the call and its state (`InHand`), what the call returned (`Returned`), and what else is open (`NoStrays`). A step of one process changes nothing of the others (`Unmoved`).
`NoStraySocketHolds` and `ReadyToServeHolds` are consequences; `ModeMeetsServiceHolds` compares two processes by the addresses of their
configurations, and needs that a numeric address stands for itself (`NumericAssumption`). `OnlyLiveSocketsRefuseHolds` is an action property: a socket at `bind` is
`reuse`, so that by the kernel's rule only a socket that listens at the same address is in the way. The
lowest free descriptor exists because the table is finite (`FreeFdIsFree`).

The loop of `parse_arguments` is said by `ReadSoFar` after each word: the pairs so far, or what ended the reading; `OneTurn` is a turn of
the loop, `StoreSets` what a pair does to the settings. `LinesAreRead` is the meaning of a line of any length (`LineRead`), and
`LastPairWinsHolds` the lines of the run.

### Assumptions on the constants

Besides the kinds of the constants: `NoRequest` is none of the requests (`HttpAssumption`); `Base` is even, for the sign to be a bit (`BaseAssumption`);
the buffer takes a head and the kernels keep something (`ExchangeAssumption`); the null pointers of an unset slot are no header (`UnsetAssumption`);
packets are not empty and their length has four bytes (`FramingAssumption`; `send_simple_packet` is never called
with an empty message); every host has an address (`SetupAssumption`; `getaddrinfo` returns a list that is not empty or an error, and hosts that are not in
`Addresses` are those with an error); a numeric address of this machine resolves to itself (`NumericAssumption`). `AwaitEach = TRUE`, where a theorem of the pool needs it, is a hypothesis and not
an assumption. TLC evaluates all of them in the runs.

### Only model-checked

- Liveness: every `FairSpec` property, since fairness and ENABLED are beyond the prover. `ImplementsPacketQueue` is the safety part that
  `ImplementsQueue` proves and the fairness of the queue, which TLC checks.

## Not modelled

- The floating-point formats of `pack.c`: no caller.
- Memory: freeing, leaks and writes past an object are in the observations, not in the models; a queue of no slots and a pool of no
  workers likewise.
- Descriptors beyond `MAX_CLIENTS` or `FD_SETSIZE`: undefined behaviour.
- Files that change while they are read, heads longer than the buffer, malformed messages beyond "bad request".
- The timing of `sleep(1)` and of the `select` timeout; texts, logging, `--help`; `remove_header`, which nobody calls.
- `class_repo`, `legacy`, `ejercicios_tarea`: course examples, not linked into the program.

## Plan

Done, in this order, the most important behaviour first: `Threadpool` with
`SyncCall` and their proofs; `Heartbeat` with its proofs; `PingPong`; `Server` with its proofs;
`HttpService`; the proofs of `PingPong` and of the lock of `HttpService`; `Pack` with its proofs, `Framing` and `PacketQueue`; `Headers` and
`HttpExchange`; `Arguments` and `Setup`; the proofs of `Framing` and of formats of any length, of `Setup`, of the order of HTTP responses, of `HttpExchange`, and of command lines.

Of the properties the runs check, only liveness has no theorem. Left: the part of it that needs no fairness, as invariants that say of each place
where somebody waits (a worker or the owner in `threadpool.c`, the loop in `select`, a side of `HttpExchange` in `recv`) that what is awaited is there or that somebody else can
still bring it.
