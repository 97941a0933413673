# staticlib_pion: a TLA+ verification project

staticlib_pion is an embedded asynchronous HTTP and WebSocket server in C++ on
top of asio. This directory holds TLA+ models of its parts, TLC configurations
that check them on small instances, and TLAPS proofs of the properties that
matter most. Source paths below are relative to the repository root; headers
are under `include/staticlib/pion/`. `PROJECT.json` maps every definition to
the lines it models and lists the runs, the hazards and the theorems.

## The system

| Part | State | Operations | Hard behaviour | Module |
|---|---|---|---|---|
| scheduler | `running`, `active_users`, `thread_pool`, mutex, two condition variables, keep-running timer | `startup`, `shutdown`, `join`, `add_active_user`, `remove_active_user`, `post`, worker loop | unlocked read of `running`, joins under the mutex, spurious wakeups, a wrapping counter | `Scheduler` |
| tcp_server, tcp_connection | `listening`, acceptor, `conn_pool`, mutex; socket, lifecycle, pending operation | `start`, `stop`, `listen`, `handle_accept`, `handle_ssl_handshake`, `finish_connection`, `prune_connections` | unlocked reads of `listening`, orphans, stop against late completions, pointers that outlive the pool | `TcpServer`, `ServerContract` |
| http_request_reader | socket, strand, timer | `receive`, `read_bytes_with_timeout`, the two handlers | timeout against completion, first read outside the strand | `RequestReader` |
| http_parser: header section | parse state, string being collected, version | `parse_headers` | limits, mixed line ends, 16-bit versions | `HttpHeaders` |
| http_parser: framing | parse state, chunk and content counts, read buffer | `parse`, `finish_header_parsing`, `parse_chunks`, `consume_content` | reads that end anywhere, pipelining, ignored bodies | `HttpBody` |
| http_response_writer | buffers, header flags, lifecycle | `write`, `send`, `send_chunk`, `send_final_chunk`, write handlers | failed writes, empty chunks, old clients | `ResponseWriter` |
| http_response, http_message | status, cached first line, headers, cookies, length | `set_*`, `add_*`, `change_*`, `delete_*`, `prepare_buffers_for_send` | headers of the handler against those of the server, a stale first line | `HttpResponse` |
| websocket | receive buffer, fragments, payload, pending writes, owner of the object | `start`, `receive`, `write`, `send`, `close`, `broadcast`, frame handlers | fragments, several frames per read, limits, overlapping writes | `WebSocket` |
| websocket registry | multimap of weak pointers, mutex | `register_ws_conn`, `find_ws_conns`, `broadcast_websocket` | connections that end at any moment | `WsRegistry` |
| http_server: routing | handler maps | `add_*`, `find_submatch`, `handle_request*` | trailing slashes, the root, methods without a map | `Routing` |
| name and value parsers | loop state, dictionary | `parse_url_encoded`, `parse_cookie_header`, `parse_multipart_form_data`, `parse_uri` | quotes, separators, limits, line ends, optional parts | `NameValues` |

The parts meet as follows. The application starts a `scheduler` and a server;
`tcp_server::start` opens the acceptor, starts the first accept and registers
the server as an active user. Workers run the completion handlers. An accepted
connection goes to an `http_request_reader`, which feeds the parser and calls
`handle_request_after_headers_parsed` and `handle_request`; the handler found
there answers through an `http_response_writer`, which ends in
`tcp_connection::finish` and so in `finish_connection`. That keeps the
connection for another reader or lets it go. An upgrade hands the connection to
a `websocket` and puts a weak pointer to it in the registry.

## How the modules correspond to the code

A step is a stretch of code between two points where another thread, a
completion or the client can interfere. A section under a lock is one step
unless it waits. Unlocked reads of `running` and `listening` are steps of their
own. `running` and `listening` are plain `bool`s, so that these are data races;
the models assume that each read sees either the old or the new value.

* **Scheduler** cuts `shutdown` where it waits for users and where it joins the
  workers, with the mutex held across the join. Condition variables are sets of
  blocked threads and may wake spuriously. `held` is a history variable: the
  registrations the callers have and have not given back.
* **TcpServer** composes the server with its connections. Everything that the
  reader, the writer and a websocket do on a socket is "the one pending
  operation" here; what a handler does next is a choice among what the code can
  do, dropping the connection without `finish()` included. A connection is in
  use (`InUse`) while such an operation is pending on it or a worker goes on
  with it. Others hold a pointer to it as well (`holders`): a worker that is on
  its way out of a handler, the wait of a read's timer, whose handler may run
  after the read, and a broadcast that is posted to a websocket's connection
  (`registered`). `finish_connection` only erases the connection from the pool;
  its socket is closed with the last holder (`LetGo`). A name of `Conns` is
  used again when nothing refers to it. `ServerContract` is the abstract
  specification: connections are admitted only while the server listens, and a
  stop is over only when none is left. The refinement mapping computes the
  phase from `listening` and the waiting callers; the pool is the set of live
  connections.
* **RequestReader** has the strand, the numbered timer waits and the gap
  between `async_read_some` and `timer.async_wait`.
* **HttpHeaders** has an action for each state of `parse_headers`. Strings are
  lengths, characters are the classes the code tells apart, and `tail` remembers
  the last four line-end characters for the properties.
* **HttpBody** reads byte sequences of whole messages from the socket in pieces
  of every size. A header section is one symbol here (`HttpHeaders` has its
  inside); chunk sizes are in base `Base` instead of 16, and below the limit of
  `strtol` (`:1215`), since a client sends all the bytes of a chunk. `WellFormed` (external)
  says what a client that keeps to the rules may put on the wire; a message
  carries the places of its chunks (`chunks`), which only `WellFormed` and the
  proofs look at.
* **ResponseWriter** puts pieces and header blocks on the wire, where they
  reach, one by one (`Arrive`), a client (external) that decodes them by the
  rules of its HTTP version. A piece is the range of the bytes it holds,
  counted over the whole response, so that the client can tell pieces and their
  order apart; `written` keeps the pieces that are not empty. The client of an
  HTTP 0.9 request expects content and no header block. The handler is
  free to write, to send in chunks or at once, to give cookies (`jar` keeps
  them) and to change the response through `get_response()`. The response is a record of **HttpResponse**, whose
  operators are the methods of `http_response` and `http_message`; a dictionary
  maps a header's name to its values, and the client reads the framing and the
  fate of the connection from the headers that go out.
* **WebSocket** has both directions, and who holds the `unique_ptr`. Coming in:
  the buffer, the fragments and the limits. Going out: the payload and its
  header, counted in pieces; the writes that are started on the socket, of
  which the socket takes each at once or in two parts; and `stream`, what the
  client makes of the bytes. A broadcast is a write that does not go through
  the owner; one that comes between two parts of another write, as the comment
  of `broadcast` (`websocket.hpp:375`) says it may, makes the stream "mixed".
  `FramesOut` says nothing of a stream from there on. The frame parser of staticlib_websocket is external: a frame is
  its type, its size and whether it is final.
* **WsRegistry** runs `find_ws_conns` entry by entry under the registry's mutex,
  with senders, registrations and connections that end. The multimap is a set
  of entries, since it never has two for one connection, and a broadcast may
  meet the entries of its path in any order: the code does not rely on the
  order, and the model covers every one. The loop of the code does not advance
  at an entry of an id that the broadcast is not for; a scan that stands at one
  (`Spins`) stands there for ever, with the mutex locked.
* **Routing** adds handlers and then dispatches requests; resources are
  sequences of parts, at least one (`ResourcesAssumption`: a string without a
  slash has one part). OPTIONS requests for "*" and "/*" go to
  `handle_root_options` before any map is asked (`RootOptions`), so that a
  handler added for them is never called; the properties except them. A request
  that is not valid is decided like one with a read error (`ec` is "io").
* **NameValues** runs the loops character by character. The result of the query
  and cookie parsers (Cookie and Set-Cookie) is compared with a definition that
  splits the whole input (`PairsExact`). Multipart bodies and URIs are put
  together from parts, and the parser has to find the parts again
  (`TakenApart`); words the code looks for, such as the boundary, are one
  character each. `filename="` ends with the `name="` that the code looks for
  (`http_parser.cpp:954`), so that either is found (`Quoted`).

Definitions whose comment calls them faulty, or says what they leave out, are
variants used to see that a property can fail; no specification uses them.

## The runs

`tlc -workers 2 -config <cfg> <module>`; states are distinct states.

| Run | States | Instance | What it shows |
|---|---|---|---|
| `scheduler_calls` | 75,626 | 2 callers, 2 workers, 4 calls, 1 job that may call `remove_active_user` | `shutdown` leaves no worker behind (`WorkersQuiesce`), never stops the scheduler under a registered user (`ShutdownDeferred`), the service never runs dry (`ServiceHasWork`), nobody sleeps on a condition variable without a wakeup to come (`NoLostWakeup`), `shutdown` and `join` return |
| `tcp_server_one_caller` | 350,663 | 1 caller, 2 workers, 3 connections, SSL, `stop(false)` | one chain of accepts, `stop(false)` leaves no socket open in the pool and returns, no thread locks the mutex it holds |
| `tcp_server_callers` | 735,694 (with symmetry) | 2 callers, 2 workers, 3 connections, both kinds of stop, handlers that throw, sockets assigned at dispatch | the pool covers every connection in use, a stopped server keeps a socket open only for a holder, a listening one is never deaf, users balance, `ServerContract` is implemented |
| `request_reader` | 6,554 | 3 workers, 4 reads | a pending read has a timer, waits do not pile up, a read ends |
| `http_headers` | 1,580 | strings of 2 characters, versions that wrap at 100 | limits hold and a section ends exactly at its empty line |
| `http_body` | 23,153 | 2 messages of every framing, reads of up to 3 bytes, base 2 | the payload handler gets exactly the body, the next request is looked for where the client put it, requests do not wait for bytes beyond their end |
| `http_body_ignored` | violation | one message form without a payload handler | see Disagreements |
| `websocket` | 354,707 | 3 frames of 1 or 2 bytes, buffer of 3, 1 fragment, messages of 1 piece, writes in 1 or 2 parts, 1 broadcast pending | messages arrive whole, once and in order, within the limits, and none is left in the buffer; what goes out is the handshake and then whole frames, up to the first broadcast that cuts a write in two (`FramesOut`) |
| `response_writer` | 617,739 | 3 pieces of 0 to 2 bytes, 2 chunks, 2 changes to the response (cookies set and deleted among them), clients of 1.1, 1.0, 0.9 and 2.0, HEAD | a client of 1.0 or later decodes the response and knows where it ends, the header block keeps its word on the connection, the status and the cookies, the connection is finished once |
| `ws_registry` | 285,276 | 2 connections of 2 ids, 2 senders, 2 paths, broadcasts to all or to one id | a live connection stays registered and is found, a dead one is purged, a broadcast returns unless it stands at an entry of an id that it is not for |
| `routing` | 666,302 | 2 handlers of any kind, 4 methods | the nearest handler serves, and no later call takes a resource from a request, payload or websocket handler (OPTIONS "*" and websockets added with a trailing slash apart) |
| `name_values` | 602,417 | every query and cookie header of up to 6 characters, names and values of 2; bodies of 2 parts with 2 headers; every URI of its parts | the dictionary has the pairs that splitting the whole input gives, the fields of a body and the parts of a URI are found again |

Every passing run is exhaustive within its bounds.

*Why the bounds are enough to be interesting.* Two callers and two workers give
every pair of overlapping operations, and a worker in a handler while another
is in a second one. Three connections allow one to be served, one to be stopped
or orphaned and one to wait for a client. Four reads are the first, outside the
strand, and three that follow. Limits of two characters put the boundary one
step away from an ordinary string. Two messages are a request and the one that
must be found after it. Three frames are a fragmented message with a message
before or after it, or one fragment more than the cache holds; a broadcast and
a write of the owner, each in two parts, give every interleaving on the socket.
Two changes to a response are a look at the first line and a change of the
status after it, or a header added twice. Six characters hold two pairs and a
separator to spare; two parts of a body are a field and the one whose state it
might spoil.
They say nothing of larger instances; for that there are the proofs.

*Deadlock* is not checked: in each system there are states in which nothing
more has to happen (bounded calls are used up, every connection has ended). What
must go on is stated as a liveness property instead.

## Fairness

* **Scheduler**: a thread inside an operation and a worker go on when they can.
  Nothing makes anyone call or the timer expire.
* **TcpServer**: the same for threads and queued handlers; a pending read
  completes because the reader sets a timer for it, and so does any operation on
  a closed socket. The wait of a timer ends, since a read has one wait or two
  (`WaitsBounded` of `RequestReader`), and a posted broadcast is run. Nothing
  makes a client arrive, a handshake or write end, or anyone broadcast.
* **RequestReader**: handlers run and time passes; nothing makes the client act.
* **HttpBody**: workers run and bytes that were sent arrive.
* **WebSocket**: the same, writes end, and the user's code passes on the
  websocket it holds: this last part is an assumption about user code.
* **ResponseWriter**: every write completes, with or without an error, and the
  handler ends its response, as the comment of `send_chunk` asks.
* **WsRegistry**: a thread that has begun a broadcast runs on, and posted
  handlers are run.

## What is proved

The proofs hold for every value of the constants that satisfies the named
assumptions (finite and disjoint sets of threads, positive limits, a modulus of
at least 2).

* **SharedStateProofs**, about `Scheduler` and `WsRegistry`. `TypeOK`, `WorkersQuiesce`, `ServiceHasWork`,
  `ShutdownDeferred`, `NoLostWakeup`. `WorkersQuiesce` says nothing of states in
  which `shutdown` holds the mutex, so it is not inductive. `IInv` adds who can
  hold the mutex between two steps, that a worker exists only while it is in the
  pool, and that a stopped scheduler with a pool is being shut down; it and the
  property are about processes in which `std::terminate` was not called.
  `ShutdownDeferred` and `NoLostWakeup` need `CountInv`, a count of
  registrations held, being made and being given back. Their theorems have two
  hypotheses: no removal overtakes its registration (`~EarlyRemove`), and fewer
  calls than the counter's modulus.
  `LiveStaysRegistered`, `BroadcastFinds`, for any number of connections,
  senders, paths and ids. The strengthening: an entry has the path and the id
  of its connection, whose name is not used anew while the entry is there; and
  half way through the loop of `find_ws_conns` a live connection that the
  broadcast owes is found or still ahead of the iterator.
* **TcpServerProofs** and **OneCallerProofs**: every safety property of
  `TcpServer` that a run checks.
  `TypeOK`, `PoolCoversActive`, `StoppedIsQuiet`, `ListeningHasAccept`,
  `UserBalance` and `KeepsContract` (the refinement of `ServerContract`) are
  proved with and without SSL, for any number of callers, for both ways of
  assigning sockets, and whether or not handlers throw. `IInv` adds that a
  connection is in one worker's hands with no operation pending, that a
  connection with an open socket is in the pool or has a holder, and that a
  stopped server has an empty pool.
  `UserBalance` counts the callers before and after each step, modulo the
  width of the counter. The three theorems of `OneCallerProofs` have one caller
  as a hypothesis:
  `OneAcceptChain` (`Chain`: a thread on its way to `listen` excludes a pending
  accept), `StopTerminatesAll` (`Closing`: while the caller waits in `stop`, the
  acceptor is closed and no socket opens; sockets assigned on completion) and
  `FinishNeverRelocks` (`Unlocked`: only a pipelined request is served under the
  mutex, and while the server listens a connection in use is open unless its
  accept failed; payload handlers that do not throw).
* **HttpReaderProofs**, about `HttpHeaders`, `RequestReader` and `Routing`.
  `StringsBounded`, `EndsWithEmptyLine`, `EmptyLineEnds`: the strengthening
  relates the parse state and the last four characters in both directions.
  `ReadHasTimer`, `WaitsBounded`: a worker that has yet to start the wait of a
  read other than the first is in the strand, and that read is the current one.
  `ServedByNearest`, `AddedIsServed`, for all resources, methods and numbers of
  handlers, with the exceptions named above. `FindIsNearest` is what the loop of `find_submatch` computes, by
  induction over the number of parts that are left. `RoutesInv` adds that
  requests are dispatched only once handlers are not added any more, that
  the handler of each call that returned is in the map of its method under its
  stripped resource (`AddInMap`), and that an upgrade has gone to the handlers
  that the websocket maps hold for its resource (`WsServed`).
* **HttpBodyProofs**: `RequestsAligned` and `PayloadExact`, for any number of
  messages, any size of reads and any base, and two results that no run has as
  a property. `NeverWaits`: when every byte that was sent has been read, the
  server reads on only with every message handled, which is the safety half of
  `RequestsHandled`. `OnlyErrorsRefused`: a step of `parse()` refuses none of
  the messages but those whose headers are in error. The four theorems have as
  hypothesis that the client's messages are `WellFormed`: a body as long as its
  Content-Length; chunks with any digits, spaces or extension, any bytes in
  them, one after the other up to the last; and nothing but line ends after a
  message on a connection that is kept. On a kept connection it so leaves out
  footers and, as `http_body_ignored` shows it must, bodies that no payload
  handler takes. That the messages of `http_body` satisfy it, the
  malformed ones apart, is an assumption of `MCHttpBody`
  (`MessagesAreWellFormed`), which TLC evaluates. `BodyInv` is the inductive
  invariant: the stream is the messages one after the other (`StreamOf`), and
  `Place` says where in them the parser stands: in a gap of line ends before the
  next message (`Gap`), in a content (`InContent`), or in which part of which
  chunk (`InHead`, `InData`, `InLast`), with the digits, the bytes left and the
  bytes delivered that belong there.
* **WebSocketProofs**: `StorageBounded`, from `Input`: while the websocket reads
  there is room for one more fragment, because `on_continuation` counts before
  it adds. `MessagesWhole`, from `Messages`: the bytes in the receive buffer and
  on the wire, taken together, are whole frames, one after the other, up to the
  last one sent (`Whole`); and where the websocket stands between the last message
  it delivered and the first of those frames (`Position`): the fragments in the
  cache are all the frames between the two (`Gathered`), or the frame at the
  head of the buffer was answered and is yet to be removed (`Answered`). The
  theorem has as hypothesis that no control frame comes between fragments
  (`"ping_inside"`). `FramesOut`, from `Payload` (what the payload buffers hold,
  by who holds the websocket) and `Output` (the owner writes only where it waits
  for the write, so that it has one pending; before the handshake is through,
  nothing else comes first without cutting it). The theorem has as hypothesis
  that the client, the handlers and the build do not use the liberties
  `"ping_payload"`, `"unsent"` and `"stack_reused"`.
* **ResponseWriterProofs** and **ResponseStreamProofs**: `FinishedOnce`, for any
  number of pieces, chunks and changes and with all the liberties of a handler.
  `ResponseDecodable` and `HeaderKeepsWord`, for clients of HTTP 1.0 and later and
  handlers that take none of them (`ByRules`). `DecodeInv` says of every state what is still under way: at each
  position of the client, the units ahead of it (`Ahead`) are the rest of the
  chunk or of the content, the bytes it still expects are those of the pieces
  that it has not got (`BytesFrom`), and the framing that it took from the
  header block is the one that the writer follows (`Framing`, `MayBeAt`).
  `WriterInv` has the facts about the headers and the cached first line that the
  header block depends on; `ResponseInv`, that the Set-Cookie headers are the
  cookies that the handler has given.

Where an invariant speaks of a recursive function (`Routing`), the proof gives
the function in closed form and shows by induction over the naturals that the
recursion has no other solution (`SetInduction`, from the well-foundedness of
`<`). `RequestReader`, `Routing`, `WsRegistry` and `HttpBody` have names of
their own for their specification (`ReaderSpec`, `RoutingSpec`, `RegistrySpec`,
`BodySpec` and the parts of these), since most of their proofs are in one module
with those of another component.

Only model-checked: all liveness properties, `ExpiredPurged` included (they need
fairness, which the prover does not handle); what `HttpBody` makes of malformed
bodies; and `PairsExact` and `TakenApart` of `NameValues`. These say what
recursive definitions compute for every input, which needs an induction over
data that the prover does not have; and the definitions are RECURSIVE operators,
which take the prover's arithmetic away from every module that uses them. Every
other safety property of a run has its theorem.

## Disagreements between the code and what it says of itself

One is kept as a run. `http_body_ignored`: without a payload handler
`handle_request_after_headers_parsed` sets `rc = true` and the request is
complete with its body still in the stream, so on a connection that is kept
alive the body is parsed as the next request (`RequestsAligned`).
`src/http_server.cpp:297` says "ignore request body as no payload_handler found".

The others are not runs, but each is reached from a configuration of the module
by changing the settings named and leaving the rest: TLC then refutes the
property, safety properties with `SPECIFICATION Spec`, temporal ones with
`FairSpec` (or the module's own names for these).

| Property | Setting | What happens | What the source says |
|---|---|---|---|
| `ActiveUserKeepsRunning` | `SchedulerCalls.cfg` | `shutdown` runs between the test of `running` and the increment of `active_users` | `scheduler.hpp:145` "Shutdown of the scheduler is deferred until there are no more active users" |
| `ShutdownOnWorkerIsSafe` | `JobCalls <- ShutdownCalls` | a worker that shuts down destroys its own joinable `std::thread` | `scheduler.cpp:156` "make sure we do not call join() for the current thread" |
| `ShutdownReturns` | `JobCalls` with `add`, `startup` or `join` | the job waits for the mutex under which it is joined | nothing says that a job may not |
| `ShutdownReturns`, `NoLostWakeup` | `EarlyRemove = TRUE`, `JobCalls <- NoCalls`, 3 callers, 1 worker | a removal that overtakes its registration wraps the counter; the increment back to 0 notifies nobody | `tcp_server.hpp:95` "Mutex to make class thread-safe" (it is two racing calls of `start` and `stop` that give this order) |
| `StopBlocks` | `TcpServerOneCaller.cfg` with `WaitFlags = {TRUE}` | `stop(true)` returns when the pool is empty, while a belated wait, a broadcast or a returning worker still holds a connection open; with `Callers = {a1, a2}` a second one returns while the first waits | `tcp_server.hpp:146` "if true, blocks until all pending connections have closed" |
| `OneAcceptChain` | `TcpServerCallers.cfg` | two callers that stop and start leave two chains of accepts | nothing |
| `StopTerminatesAll`, `StopReturns` | `AssignOnDispatch = TRUE` | an asio that assigns the accepted socket when the handler runs: `stop(false)` closes a connection that has no socket yet | `tcp_server.cpp:103` "this terminates any other open connections" |
| `FinishNeverRelocks` | `PayloadThrows = TRUE` | the payload handler of a pipelined request throws while `finish_connection` holds the mutex; the error path calls `finish` | `http_parser.cpp:99` "payload_handler may throw" |
| `TimeoutOnlyReads` | `RequestReader.cfg` | a wait that expires as its read completes cancels the write of the response | `http_server.hpp:88` "Timeout for read operations" |
| `MessagesWhole` | `Liberties = {"ping_inside"}` | the answer to a ping between two fragments ends in `receive()`, which clears the fragments | `websocket.hpp:139` "a WebSocket RFC 6455 connection" |
| `FramesOut` | `Liberties = {"ping_payload"}` | `on_ping` writes the payload of the ping back without a header, which the client takes for a frame | the same |
| `FramesOut` | `Liberties = {"unsent"}` | what a handler wrote and did not send before `receive()` goes out, without a header, with the answer to the next ping | the same |
| `FramesOut` | `Liberties = {"stack_reused"}` | `send_close` gives `async_write` the address of its parameter, which is gone when the socket takes the rest | the same |
| `ResponseDecodable` | `Liberties = {"head_in_chunks"}` | a HEAD request answered with chunks gets the final chunk as a body | `http_response.hpp:105` "HEAD responses have no content" |
| `ResponseDecodable` | `Liberties = {"override"}` or `{"bare_final"}` | header and body disagree on chunks after `supports_chunked_messages(b)`; a response to a 2.x request has no length | nothing |
| `ResponseDecodable` | `Liberties = {"own_length"}` | a Content-Length that the handler set stays in the headers where `prepare_headers_for_send` does not replace it, `set_content_length` gives one that is not the body's, or none is sent on a connection that is kept alive | `http_message.hpp:805` "the content-length will not be sent in the HTTP headers" |
| `SimpleResponse` | `ResponseWriter.cfg` | the response to a request of HTTP 0.9 begins with a header block | `http_response.hpp:123` "so expect the response to contain no header and no version info" |
| `HeaderKeepsWord` | `Liberties = {"cookies"}` | `append_cookie_headers` is not virtual in `http_message`, so that the one of `http_response` is never called and cookies of `add_cookie` are not sent | `http_message.hpp:1060` "Appends HTTP headers for any cookies defined by the http::message" |
| `BroadcastToSomeReturns` | `WsRegistry.cfg` | `find_ws_conns` does not advance past a client that is not addressed, and spins with the registry's mutex locked | `http_server.hpp:257` "broadcast only to the specified list of ids" |
| `TakenApart` | `Liberties = {"bare_lf"}` | the headers of a part that end with LF alone skip the test for a text type | `http_parser.cpp:950` "only keep fields that have a text type or no type" |
| `TakenApart` | `Liberties = {"no_value"}` | after a header without a value its name stays and is added to the next one's | `http_parser.cpp:919` "premature CR or LF -> just ignore and start parsing next header" |
| `TakenApart` | `Liberties = {"file_first"}` | the name of the file is taken for the field's where it comes first (`:954`) | `http_parser.cpp:953` "get current field from content-disposition header" |
| `TakenApart` | `Liberties = {"no_data"}` | a part without a line of data: the CR and LF that are taken off its end are not part of it (`:995`) | nothing |
| `TakenApart` | `Liberties = {"query_only"}`, `{"nested"}` or `{"reused"}` | `parse_uri` takes a query without a path for part of the host, and "://" in a query for the scheme's; it leaves the query of an earlier call (`:748`) | nothing |

The passing runs therefore show their properties for the other settings: jobs
that call only `remove_active_user`, one caller for `stop`, sockets assigned on
completion, and so on. `PoolCoversActive`, `StoppedIsQuiet`,
`ListeningHasAccept`, `UserBalance` and `KeepsContract` need none of these
restrictions.

## Not modelled

* The interim response "100 Continue", whose write may overlap that of the
  response as a broadcast overlaps others (`http_server.cpp:278`).
* The bytes of frame headers, masks and the handshake's digest, which are
  staticlib_websocket's; conversions between numbers and text.
* The setters of `http_request` that only a client would call, `clear()` and
  copies of messages.
* `PARSE_CONTENT_NO_LENGTH` and `consume_content_as_next_chunk`: no statement
  enters that state. `http_parser::finish`, which sets the validity and the
  length of a message, and `update_message_with_header_data`, which passes the
  query and each Cookie header to the parsers that `NameValues` models.
* Response status lines in the parser: a server never parses a response.
* Memory: lifetimes of members during destruction, `bad_alloc`, and reads of
  freed memory are outside the models. Handler maps changed while the server
  runs are undefined behaviour of `std::unordered_map`; `Routing` adds first.
* SSL configuration, logging, exception classes, accessors: no control.

Other behaviour of the code that the models have or that was met on the way,
and that no property is about, because nothing in the repository says what
should happen:

* a `bind` or `listen` that fails leaves the acceptor open, and every later
  `start` fails in `open` (`tcp_server.cpp:61`; in `TcpServer`);
* the major version is 16 bits wide, and one that wraps to 0 is taken for HTTP
  0.9 (`http_parser.cpp:328`; in `HttpHeaders`), a request line that ends after
  the space behind the URI is not (`:274`), and after LF CR LF the parser needs
  one more character (`:578`);
* a method without a map throws out of `parse()`, and the connection is neither
  answered nor finished until it is pruned (`http_server.cpp:68`; the exception
  is in `Routing`, the dropped connection in `TcpServer`);
* a handler added for OPTIONS "*" is accepted and never called
  (`http_server.cpp:353`; in `Routing`);
* a websocket handler added for "/ws/" is stored as "/ws" and looked up with
  the slash (`http_server.cpp:330`; in `Routing`); a connection is registered
  after it was started (`:341`; in `WsRegistry`); a pong closes the connection
  (`websocket.hpp:649`; in `WebSocket`);
* SSL handshakes, writes and websocket reads have no timeout, so that
  `stop(true)` may wait for ever (`TcpServer`), and `~tcp_server` stops the
  server after the members of `http_server` are destroyed (not modelled).

Apart from what is named above, the lines that `PROJECT.json` does not map are
mostly comments, declarations, constants, accessors, error texts and logging.

## Possible extensions

* `HttpHeaders` composed with `HttpBody`, and `RequestReader` with `TcpServer`,
  to replace choices by what the component does.
* Abstract specifications for the requests of a connection (each is answered
  once, in order) and for the delivery of websocket messages, with refinements.
