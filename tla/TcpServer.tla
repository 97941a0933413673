------------------------------ MODULE TcpServer ------------------------------
(***************************************************************************)
(* staticlib::pion::tcp_server (src/tcp_server.cpp) with the connections   *)
(* it manages and the asynchronous operations that http_server, the        *)
(* request reader, the response writer and the websocket start on them.    *)
(*                                                                         *)
(* A connection is in use while an operation of a request or a response is *)
(* pending on it, or a worker has it in its hands to go on with.  A worker *)
(* that returns from its handler, the wait handler of a read's timer and a *)
(* posted broadcast still hold a pointer to it: they are its holders.  In  *)
(* the pool, a connection with neither is an orphan (conn_itr->unique() in *)
(* the code); outside, the last holder destroys it, which closes its       *)
(* socket, and the name is used again.                                     *)
(*                                                                         *)
(* A step is a stretch of code between two points where another thread can *)
(* interfere: a section locked by `mutex' is one step, and so is a handler *)
(* up to the next lock it takes.                                           *)
(***************************************************************************)
EXTENDS Integers, FiniteSets

CONSTANTS
  Callers,          \* application threads that call start() and stop()
  Workers,          \* threads of the scheduler's pool
  NoThread,         \* the owner of a free mutex
  Conns,            \* names of tcp_connection objects (bound)
  NoConn,
  Ssl,              \* ssl_flag
  WaitFlags,        \* values callers pass for wait_until_finished
  AssignOnDispatch, \* asio >= 1.12: an accepted socket is assigned to the
                    \* connection when the handler runs, not on completion
  PayloadThrows,    \* may a payload handler throw?
  UserModulus       \* active_users wraps here (2^32 in the code)

ASSUME ThreadsAssumption ==
  /\ Callers \cap Workers = {}
  /\ NoThread \notin Callers \cup Workers
  /\ IsFiniteSet(Callers) /\ IsFiniteSet(Workers)

ASSUME ConnsAssumption ==
  /\ NoConn \notin Conns
  /\ IsFiniteSet(Conns)

ASSUME OptionsAssumption ==
  /\ Ssl \in BOOLEAN
  /\ WaitFlags \subseteq BOOLEAN
  /\ AssignOnDispatch \in BOOLEAN
  /\ PayloadThrows \in BOOLEAN
  /\ UserModulus \in Nat \ {0, 1}

Threads == Callers \cup Workers
Lifecycles == {"close", "keepalive", "pipelined"}
Operations == {"none", "accept", "handshake", "read", "write"}

CallerLabels == {"idle", "start_listen", "start_add", "stop", "stop_wait"}
WorkerLabels ==
  {"idle", "listen_ok", "listen_err", "finish", "pipelined", "leave"}
Holders == Workers \cup {"wait", "broadcast"}
ListenLabels == {"start_listen", "listen_ok", "listen_err"}

VARIABLES
  mutex,        \* the thread that holds tcp_server::mutex between two steps
  listening,    \* tcp_server::listening
  acceptor,     \* is tcp_acceptor open?
  active_users, \* the scheduler's count, of which the server is one user
  running,      \* the scheduler has been started
  conn_pool,    \* tcp_server::conn_pool
  sock,         \* is the socket of a connection open?
  lifecycle,    \* tcp_connection::current_lifecycle
  op,           \* the asynchronous operation pending on a connection
  done,         \* its result, once its handler is queued: "ok" or "err"
  holders,      \* who else holds a pointer to a connection
  registered,   \* the websockets' connections, known to broadcast_websocket
  pc,           \* where each thread is
  cur,          \* the connection in the hands of a worker
  wait          \* wait_until_finished, while the caller is in stop()

vars == <<mutex, listening, acceptor, active_users, running, conn_pool, sock,
          lifecycle, op, done, holders, registered, pc, cur, wait>>

server == <<listening, acceptor, active_users, running>>
refs == <<holders, registered>>

Init ==
  /\ mutex = NoThread
  /\ listening = FALSE
  /\ acceptor = FALSE
  /\ active_users = 0
  /\ running = FALSE
  /\ conn_pool = {}
  /\ sock = [c \in Conns |-> FALSE]
  /\ lifecycle = [c \in Conns |-> "close"]
  /\ op = [c \in Conns |-> "none"]
  /\ done = [c \in Conns |-> "none"]
  /\ holders = [c \in Conns |-> {}]
  /\ registered = {}
  /\ pc = [t \in Threads |-> "idle"]
  /\ cur = [w \in Workers |-> NoConn]
  /\ wait = [t \in Callers |-> FALSE]

-----------------------------------------------------------------------------
(* References to connections                                               *)

InUse(c) == op[c] # "none" \/ \E w \in Workers : cur[w] = c

Referenced(c) == InUse(c) \/ holders[c] # {}

Orphans == {c \in conn_pool : ~Referenced(c)}

Free == {c \in Conns \ conn_pool : ~Referenced(c)}

\* Names that threads on their way to listen() will take, or may take once
\* the handler of a completed accept runs.
Demand ==
  Cardinality({t \in Threads : pc[t] \in ListenLabels})
    + Cardinality({c \in Conns : op[c] = "accept" /\ done[c] # "none"})

\* Bound: a client arrives, and start() is called, only while a name is left.
NameLeft == Cardinality(Free) > Demand

-----------------------------------------------------------------------------
(* What a thread does to a connection                                      *)

Goto(t, label) == pc' = [pc EXCEPT ![t] = label]

\* Worker w has connection c in its hands and goes on at label.
Take(w, c, label) ==
  /\ op' = [op EXCEPT ![c] = "none"]
  /\ cur' = [cur EXCEPT ![w] = c]
  /\ Goto(w, label)
  /\ UNCHANGED holders

\* Worker w is done with connection c, which it leaves to operation o.  A read
\* has a timer, whose wait handler holds c as well.  Where nothing is pending
\* the worker still holds c until it has returned.  Otherwise it is taken to
\* have returned: the handler of o holds c, and the worker that runs it next.
Depart(w, c, o) ==
  /\ holders' = [holders EXCEPT ![c] =
       @ \cup (IF o = "none" THEN {w} ELSE IF o = "read" THEN {"wait"} ELSE {})]
  /\ cur' = [cur EXCEPT ![w] = NoConn]
  /\ Goto(w, IF o = "none" THEN "leave" ELSE "idle")

\* Worker w leaves operation o pending on connection c.
Await(w, c, o) == op' = [op EXCEPT ![c] = o] /\ Depart(w, c, o)

\* Nothing is pending: c is an orphan, once it has no holder, if it is in the
\* pool.
Drop(w, c) == Await(w, c, "none")

\* The holders of c are now H.  Without any other pointer c is destroyed: its
\* socket is closed, and the pointer in the websockets' registry has expired.
LetGo(c, H) ==
  LET alive == c \in conn_pool \/ InUse(c) \/ H # {}
  IN  /\ holders' = [holders EXCEPT ![c] = H]
      /\ sock' = [sock EXCEPT ![c] = @ /\ alive]
      /\ registered' = IF alive THEN registered ELSE registered \ {c}

\* The first operation on an accepted connection.
FirstOperation == IF Ssl THEN "handshake" ELSE "read"

\* Closing a set of sockets; operations pending on them will fail.
Close(C) == sock' = [c \in Conns |-> sock[c] /\ c \notin C]

-----------------------------------------------------------------------------
(* listen and start                                                        *)

\* Faulty variant: the new connection is not put into the pool.
ListenUntracked(opNow) ==
  IF listening
  THEN \E c \in Free :
         /\ conn_pool' = conn_pool \ Orphans
         /\ Close(Orphans)
         /\ lifecycle' = [lifecycle EXCEPT ![c] = "close"]
         /\ op' = [opNow EXCEPT ![c] = "accept"]
  ELSE op' = opNow /\ UNCHANGED <<conn_pool, sock, lifecycle>>

\* Faulty variant: `listening' is not tested again under the lock.
ListenUnchecked(opNow) ==
  \E c \in Free :
    /\ conn_pool' = (conn_pool \ Orphans) \cup {c}
    /\ Close(Orphans)
    /\ lifecycle' = [lifecycle EXCEPT ![c] = "close"]
    /\ op' = [opNow EXCEPT ![c] = "accept"]

\* The locked section of listen(): it prunes the orphans, inserts a new
\* connection and starts an accept on it.  opNow is op after what the calling
\* thread does to its own connection.
Listen(opNow) ==
  IF listening
  THEN \E c \in Free :
         /\ conn_pool' = (conn_pool \ Orphans) \cup {c}
         /\ Close(Orphans)
         /\ lifecycle' = [lifecycle EXCEPT ![c] = "close"]
         /\ op' = [opNow EXCEPT ![c] = "accept"]
  ELSE op' = opNow /\ UNCHANGED <<conn_pool, sock, lifecycle>>

\* start() on a server that does not listen: a bind that fails leaves the
\* acceptor open, and an open acceptor makes open() fail.
Start(t) ==
  /\ pc[t] = "idle" /\ mutex = NoThread
  /\ ~listening /\ NameLeft
  /\ \E bound \in {b \in BOOLEAN : b => ~acceptor} :
       /\ listening' = bound
       /\ Goto(t, IF bound THEN "start_listen" ELSE "idle")
  /\ acceptor' = TRUE
  /\ UNCHANGED <<refs, mutex, active_users, running, conn_pool, sock,
                 lifecycle, op, done, cur, wait>>

StartListen(t) ==
  /\ pc[t] = "start_listen" /\ mutex = NoThread
  /\ Listen(op)
  /\ Goto(t, "start_add")
  /\ UNCHANGED <<refs, mutex, server, done, cur, wait>>

\* active_scheduler.add_active_user(), which starts the scheduler.
StartAdd(t) ==
  /\ pc[t] = "start_add"
  /\ active_users' = (active_users + 1) % UserModulus
  /\ running' = TRUE
  /\ Goto(t, "idle")
  /\ UNCHANGED <<refs, mutex, listening, acceptor, conn_pool, sock, lifecycle,
                 op, done, cur, wait>>

-----------------------------------------------------------------------------
(* stop                                                                    *)

CallStop(t) ==
  /\ pc[t] = "idle"
  /\ \E b \in WaitFlags : wait' = [wait EXCEPT ![t] = b]
  /\ Goto(t, "stop")
  /\ UNCHANGED <<refs, mutex, server, conn_pool, sock, lifecycle, op, done,
                 cur>>

StopIgnored(t) ==
  /\ pc[t] = "stop" /\ mutex = NoThread
  /\ ~listening
  /\ Goto(t, "idle")
  /\ wait' = [wait EXCEPT ![t] = FALSE]
  /\ UNCHANGED <<refs, mutex, server, conn_pool, sock, lifecycle, op, done,
                 cur>>

\* Faulty variant: an emptied pool ends the loop before remove_active_user.
DrainKeepsUser(t) ==
  /\ conn_pool' = conn_pool \ Orphans
  /\ Goto(t, IF conn_pool' = {} THEN "idle" ELSE "stop_wait")
  /\ UNCHANGED <<active_users, wait>>

\* Faulty variant: stop() looks at the pool once, without the loop.
DrainOnce(t) ==
  /\ conn_pool' = conn_pool \ Orphans
  /\ Goto(t, "idle")
  /\ active_users' = (active_users - 1) % UserModulus
  /\ UNCHANGED wait

\* Faulty variant: the loop does not prune.
DrainNoPrune(t) ==
  /\ UNCHANGED <<conn_pool, wait>>
  /\ IF conn_pool = {}
     THEN /\ Goto(t, "idle")
          /\ active_users' = (active_users - 1) % UserModulus
     ELSE Goto(t, "stop_wait") /\ UNCHANGED active_users

\* One turn of the loop that waits for the connections.  When the pool is
\* empty, remove_active_user() is called and stop() returns.
Drain(t) ==
  /\ conn_pool' = conn_pool \ Orphans
  /\ wait' = [wait EXCEPT ![t] = @ /\ conn_pool' # {}]
  /\ IF conn_pool' = {}
     THEN /\ Goto(t, "idle")
          /\ active_users' = (active_users - 1) % UserModulus
     ELSE Goto(t, "stop_wait") /\ UNCHANGED active_users

\* Faulty variant: stop(false) leaves the connections open.
StopBeginNoClose(t) ==
  /\ pc[t] = "stop" /\ mutex = NoThread
  /\ listening
  /\ listening' = FALSE
  /\ acceptor' = FALSE
  /\ done' = [c \in Conns |-> IF op[c] = "accept" /\ done[c] = "none"
                              THEN "err" ELSE done[c]]
  /\ Close(Orphans)
  /\ Drain(t)
  /\ UNCHANGED <<refs, mutex, running, lifecycle, op, cur>>

\* Closing the acceptor aborts the accepts that have not completed.
StopBegin(t) ==
  /\ pc[t] = "stop" /\ mutex = NoThread
  /\ listening
  /\ listening' = FALSE
  /\ acceptor' = FALSE
  /\ done' = [c \in Conns |-> IF op[c] = "accept" /\ done[c] = "none"
                              THEN "err" ELSE done[c]]
  /\ Close(IF wait[t] THEN Orphans ELSE conn_pool)
  /\ Drain(t)
  /\ UNCHANGED <<refs, mutex, running, lifecycle, op, cur>>

\* The wait for no_more_connections ends after 250 milliseconds at the latest.
StopWake(t) ==
  /\ pc[t] = "stop_wait" /\ mutex = NoThread
  /\ Close(Orphans)
  /\ Drain(t)
  /\ UNCHANGED <<refs, mutex, listening, acceptor, running, lifecycle, op,
                 done, cur>>

-----------------------------------------------------------------------------
(* Completion of operations (asio)                                         *)

\* A client arrives, or the accept fails; NameLeft bounds the connections.
AcceptCompletes(c) ==
  /\ op[c] = "accept" /\ done[c] = "none"
  /\ acceptor /\ NameLeft
  /\ \E r \in {"ok", "err"} :
       /\ done' = [done EXCEPT ![c] = r]
       /\ sock' = [sock EXCEPT ![c] = @ \/ (r = "ok" /\ ~AssignOnDispatch)]
  /\ UNCHANGED <<refs, mutex, server, conn_pool, lifecycle, op, pc, cur, wait>>

\* A handshake, read or write completes; on a closed socket it fails.
Completes(c) ==
  /\ op[c] \in {"handshake", "read", "write"} /\ done[c] = "none"
  /\ \E r \in {"ok", "err"} :
       /\ r = "ok" => sock[c]
       /\ done' = [done EXCEPT ![c] = r]
  /\ UNCHANGED <<refs, mutex, server, conn_pool, sock, lifecycle, op, pc, cur,
                 wait>>

\* An idle worker can run the queued handler of operation o on c.
Ready(w, c, o) ==
  /\ running
  /\ pc[w] = "idle"
  /\ op[c] = o /\ done[c] # "none"

-----------------------------------------------------------------------------
(* handle_accept and handle_ssl_handshake                                  *)

\* `listening' is read without the lock.
HandleAccept(w, c) ==
  /\ Ready(w, c, "accept")
  /\ done' = [done EXCEPT ![c] = "none"]
  /\ sock' = [sock EXCEPT ![c] = @ \/ (AssignOnDispatch /\ done[c] = "ok")]
  /\ \/ listening /\ done[c] = "ok" /\ Take(w, c, "listen_ok")
     \/ listening /\ done[c] = "err" /\ Take(w, c, "listen_err")
     \/ ~listening /\ done[c] = "ok" /\ Await(w, c, FirstOperation)
     \/ ~listening /\ done[c] = "err" /\ Take(w, c, "finish")
  /\ UNCHANGED <<registered, mutex, server, conn_pool, lifecycle, wait>>

\* Faulty variant: after an accept error the server does not listen again.
AcceptListenOnlyOk(w) ==
  /\ mutex = NoThread
  /\ \/ /\ pc[w] = "listen_ok"
        /\ Listen([op EXCEPT ![cur[w]] = FirstOperation])
        /\ Depart(w, cur[w], FirstOperation)
     \/ /\ pc[w] = "listen_err"
        /\ UNCHANGED <<holders, conn_pool, sock, lifecycle, op, cur>>
        /\ Goto(w, "finish")
  /\ UNCHANGED <<registered, mutex, server, done, wait>>

\* listen(), then the handshake, handle_connection or finish_connection.
AcceptListen(w) ==
  /\ mutex = NoThread
  /\ \/ /\ pc[w] = "listen_ok"
        /\ Listen([op EXCEPT ![cur[w]] = FirstOperation])
        /\ Depart(w, cur[w], FirstOperation)
     \/ /\ pc[w] = "listen_err"
        /\ Listen(op)
        /\ Goto(w, "finish")
        /\ UNCHANGED <<holders, cur>>
  /\ UNCHANGED <<registered, mutex, server, done, wait>>

HandleSslHandshake(w, c) ==
  /\ Ready(w, c, "handshake")
  /\ done' = [done EXCEPT ![c] = "none"]
  /\ IF done[c] = "ok" THEN Await(w, c, "read") ELSE Take(w, c, "finish")
  /\ UNCHANGED <<registered, mutex, server, conn_pool, sock, lifecycle, wait>>

-----------------------------------------------------------------------------
(* Requests and responses                                                  *)

SetLifecycle(c, l) == lifecycle' = [lifecycle EXCEPT ![c] = l]

\* A request handler answers: send() and send_chunk() write to an open socket
\* and finish a connection whose socket was closed.  A handler that throws or
\* gives up its writer leaves an orphan; the destructor of a websocket always
\* finishes its connection.
Respond(w, c) ==
  \/ sock[c] /\ Await(w, c, "write")
  \/ ~sock[c] /\ Take(w, c, "finish")
  \/ c \notin registered /\ Drop(w, c)

\* A request for a websocket: its constructor gives up keep-alive, start()
\* writes the handshake, and the connection is registered for broadcasts.
Upgrade(w, c) ==
  /\ Await(w, c, "write") /\ SetLifecycle(c, "close")
  /\ registered' = registered \cup {c}

\* What consume_bytes and handle_request make of the bytes read: the message
\* is not complete; it is complete, or is no HTTP, and is answered; a payload
\* handler has thrown and the connection is finished without an answer.
Consume(w, c) ==
  \/ Upgrade(w, c)
  \/ /\ \/ Await(w, c, "read") /\ UNCHANGED lifecycle
        \/ \E l \in Lifecycles : SetLifecycle(c, l) /\ Respond(w, c)
        \/ PayloadThrows /\ SetLifecycle(c, "close") /\ Take(w, c, "finish")
     /\ UNCHANGED registered

\* handle_read_error: the end of a message without a content length is a
\* request, any other error finishes the connection.
ReadError(w, c) ==
  \/ Upgrade(w, c)
  \/ /\ SetLifecycle(c, "close")
     /\ Respond(w, c) \/ Take(w, c, "finish")
     /\ UNCHANGED registered

HandleRead(w, c) ==
  /\ Ready(w, c, "read")
  /\ done' = [done EXCEPT ![c] = "none"]
  /\ IF done[c] = "ok" THEN Consume(w, c) ELSE ReadError(w, c)
  /\ UNCHANGED <<mutex, server, conn_pool, sock, wait>>

\* handle_write finishes the connection; after a chunk the application sends
\* the next one (which gives up keep-alive for a client that knows no chunks)
\* or drops the writer.  The exchanges of a websocket are writes here as well;
\* the close frame that follows an error goes with the end of the last one.
HandleWrite(w, c) ==
  /\ Ready(w, c, "write")
  /\ done' = [done EXCEPT ![c] = "none"]
  /\ \/ Take(w, c, "finish") /\ UNCHANGED lifecycle
     \/ \E l \in {lifecycle[c], "close"} : SetLifecycle(c, l) /\ Respond(w, c)
  /\ UNCHANGED <<registered, mutex, server, conn_pool, sock, wait>>

-----------------------------------------------------------------------------
(* finish_connection                                                       *)

\* handle_connection() for a client that may send another request.
FinishKeepAlive(w) ==
  /\ pc[w] = "finish" /\ mutex = NoThread
  /\ listening /\ lifecycle[cur[w]] = "keepalive"
  /\ SetLifecycle(cur[w], "close")
  /\ Await(w, cur[w], "read")
  /\ UNCHANGED <<registered, mutex, server, conn_pool, sock, done, wait>>

\* Faulty variant: a pipelined request is served by a server that is stopping.
FinishPipelinedAlways(w) ==
  /\ pc[w] = "finish" /\ mutex = NoThread
  /\ lifecycle[cur[w]] = "pipelined"
  /\ SetLifecycle(cur[w], "close")
  /\ mutex' = w
  /\ Goto(w, "pipelined")
  /\ UNCHANGED <<refs, server, conn_pool, sock, op, done, cur, wait>>

\* handle_connection() for a request that is in the read buffer already: it
\* is parsed and answered with the mutex locked.
FinishPipelined(w) ==
  /\ pc[w] = "finish" /\ mutex = NoThread
  /\ listening /\ lifecycle[cur[w]] = "pipelined"
  /\ SetLifecycle(cur[w], "close")
  /\ mutex' = w
  /\ Goto(w, "pipelined")
  /\ UNCHANGED <<refs, server, conn_pool, sock, op, done, cur, wait>>

\* Where Consume ends in finish(), finish_connection locks the mutex that this
\* thread holds, and nobody ever unlocks it.
PipelinedRequest(w) ==
  /\ pc[w] = "pipelined"
  /\ Consume(w, cur[w])
  /\ mutex' = IF pc'[w] = "finish" THEN w ELSE NoThread
  /\ UNCHANGED <<server, conn_pool, sock, done, wait>>

\* The connection leaves the pool.  finish_connection only erases it; its
\* socket is open for as long as there are holders.
FinishClose(w) ==
  /\ pc[w] = "finish" /\ mutex = NoThread
  /\ ~listening \/ lifecycle[cur[w]] = "close"
  /\ conn_pool' = conn_pool \ {cur[w]}
  /\ Drop(w, cur[w])
  /\ UNCHANGED <<registered, mutex, server, sock, lifecycle, done, wait>>

-----------------------------------------------------------------------------
(* The holders of a connection                                             *)

\* The worker's handler returns, and with it the pointer on its stack is gone.
Leave(w) ==
  /\ pc[w] = "leave"
  /\ \E c \in Conns : w \in holders[c] /\ LetGo(c, holders[c] \ {w})
  /\ Goto(w, "idle")
  /\ UNCHANGED <<mutex, server, conn_pool, lifecycle, op, done, cur, wait>>

\* A worker runs a short handler that is queued for holder h of c.
CanRun(c, h) ==
  running /\ h \in holders[c] /\ \E w \in Workers : pc[w] = "idle"

\* The wait handler of a read's timer.  The timer was cancelled when the read
\* completed, or it expired, in time or belatedly, and what is then pending on
\* the connection is cancelled.  With two waits (RequestReader) the second one
\* still holds the connection, as does the one of a read that is pending.
WaitEnds(c) ==
  /\ CanRun(c, "wait")
  /\ \/ UNCHANGED done
     \/ /\ op[c] \in {"read", "write"} /\ done[c] = "none"
        /\ done' = [done EXCEPT ![c] = "err"]
  /\ \E rest \in SUBSET {"wait"} :
       /\ op[c] = "read" /\ done'[c] = "none" => rest = {"wait"}
       /\ LetGo(c, (holders[c] \ {"wait"}) \cup rest)
  /\ UNCHANGED <<mutex, server, conn_pool, lifecycle, op, pc, cur, wait>>

\* broadcast_websocket() finds the connection of a websocket, which need not
\* be in the pool any more, and posts a handler for it (bound: one each).
Broadcast(c) ==
  /\ c \in registered /\ "broadcast" \notin holders[c]
  /\ c \in conn_pool \/ Referenced(c)
  /\ holders' = [holders EXCEPT ![c] = @ \cup {"broadcast"}]
  /\ UNCHANGED <<registered, mutex, server, conn_pool, sock, lifecycle, op,
                 done, pc, cur, wait>>

\* It starts a write that nobody waits for and that holds no pointer.
BroadcastRuns(c) ==
  /\ CanRun(c, "broadcast")
  /\ LetGo(c, holders[c] \ {"broadcast"})
  /\ UNCHANGED <<mutex, server, conn_pool, lifecycle, op, done, pc, cur, wait>>

-----------------------------------------------------------------------------
Caller(t) ==
  \/ StartListen(t) \/ StartAdd(t)
  \/ StopIgnored(t) \/ StopBegin(t) \/ StopWake(t)

Handle(w, c) ==
  HandleAccept(w, c) \/ HandleSslHandshake(w, c)
    \/ HandleRead(w, c) \/ HandleWrite(w, c)

Continue(w) ==
  \/ AcceptListen(w)
  \/ FinishKeepAlive(w) \/ FinishPipelined(w) \/ FinishClose(w)
  \/ PipelinedRequest(w) \/ Leave(w)

Next ==
  \/ \E t \in Callers : Start(t) \/ CallStop(t) \/ Caller(t)
  \/ \E c \in Conns : AcceptCompletes(c) \/ Completes(c)
  \/ \E c \in Conns : WaitEnds(c) \/ Broadcast(c) \/ BroadcastRuns(c)
  \/ \E w \in Workers, c \in Conns : Handle(w, c)
  \/ \E w \in Workers : Continue(w)

Spec == Init /\ [][Next]_vars

(***************************************************************************)
(* Fairness: a thread inside start(), stop() or a handler goes on when it  *)
(* can; a queued handler is run by some worker; a pending read completes,  *)
(* since the request reader sets a timer for it; and so does any operation *)
(* on a closed socket; every wait of such a timer ends, of which there are *)
(* two at most.  Nothing makes a client arrive, a handshake or a write     *)
(* end, or a caller or a sender of broadcasts call.                        *)
(***************************************************************************)
MustComplete(c) == (op[c] = "read" \/ ~sock[c]) /\ Completes(c)

Fairness ==
  /\ \A t \in Callers : WF_vars(Caller(t))
  /\ \A w \in Workers : WF_vars(Continue(w))
  /\ \A c \in Conns : /\ WF_vars(\E w \in Workers : Handle(w, c))
                      /\ WF_vars(MustComplete(c))
                      /\ WF_vars(WaitEnds(c) /\ "wait" \notin holders'[c])
                      /\ WF_vars(BroadcastRuns(c))

FairSpec == Spec /\ Fairness

-----------------------------------------------------------------------------
(* Properties                                                              *)

\* The type of every variable; active_users has the width of its C++ type.
TypeOK ==
  /\ mutex \in Threads \cup {NoThread}
  /\ listening \in BOOLEAN /\ acceptor \in BOOLEAN /\ running \in BOOLEAN
  /\ active_users \in 0 .. (UserModulus - 1)
  /\ conn_pool \in SUBSET Conns
  /\ sock \in [Conns -> BOOLEAN]
  /\ lifecycle \in [Conns -> Lifecycles]
  /\ op \in [Conns -> Operations]
  /\ done \in [Conns -> {"none", "ok", "err"}]
  /\ holders \in [Conns -> SUBSET Holders]
  /\ registered \in SUBSET Conns
  /\ pc \in [Threads -> CallerLabels \cup WorkerLabels]
  /\ cur \in [Workers -> Conns \cup {NoConn}]
  /\ wait \in [Callers -> BOOLEAN]

\* The pool is complete: no connection has an operation of a request or a
\* response pending, or is in the hands of a worker that goes on with it,
\* without being in conn_pool, so that stop() sees every connection in use.
\* Only holders outlive their connection's place in the pool.
PoolCoversActive ==
  \A c \in Conns : InUse(c) => c \in conn_pool

\* When the server does not listen and no stop() is waiting, nothing is left
\* of it but what stop() does not wait for: no accept, read or write of it is
\* pending, no worker goes on with a connection, and a socket is open only
\* until the holders of its connection are gone: a worker on its way out of a
\* handler, the wait of a timer or a posted broadcast.
StoppedIsQuiet ==
  (~listening /\ \A t \in Callers : pc[t] # "stop_wait") =>
    \A c \in Conns : ~InUse(c) /\ (sock[c] => holders[c] # {})

\* A listening server is never deaf: some connection waits for a client, or a
\* thread is on its way to listen().
ListeningHasAccept ==
  listening => \/ \E c \in Conns : op[c] = "accept"
               \/ \E t \in Threads : pc[t] \in ListenLabels

\* Callers that start and stop the server in turn never get a second chain of
\* accepts, although handle_accept looks at `listening' without the lock.
OneAcceptChain ==
  Cardinality({c \in Conns : op[c] = "accept"})
    + Cardinality({t \in Threads : pc[t] \in ListenLabels}) <= 1

\* The scheduler counts the server as a user exactly while it listens or
\* stops: start() and stop() balance however they overlap.
UserBalance ==
  active_users =
    ((IF listening THEN 1 ELSE 0)
       + Cardinality({t \in Callers : pc[t] = "stop_wait"})
       - Cardinality({t \in Callers : pc[t] \in {"start_listen", "start_add"}}))
      % UserModulus

\* stop(true) "blocks until all pending connections have closed".  It blocks
\* until the pool is empty, when a holder may keep a connection open, and a
\* second stop() returns at once while the first one waits.
StopBlocks ==
  [][\A t \in Callers :
       pc[t] \in {"stop", "stop_wait"} /\ wait[t] /\ pc'[t] = "idle" =>
         \A c \in Conns : ~sock'[c]]_vars

\* stop(false) "terminates any other open connections": none of the
\* connections it then waits for is open.  This is for sockets assigned when the
\* accept completes (AssignOnDispatch = FALSE).
StopTerminatesAll ==
  \A t \in Callers : pc[t] = "stop_wait" /\ ~wait[t] =>
    \A c \in conn_pool : ~sock[c]

\* Finishing a connection never happens with the server's mutex already in
\* the thread's own hands.  This is for payload handlers that do not throw.
FinishNeverRelocks ==
  \A w \in Workers : pc[w] = "finish" => mutex # w

\* stop(false) returns, whatever the clients do (AssignOnDispatch = FALSE).
StopReturns ==
  \A t \in Callers : pc[t] = "stop_wait" /\ ~wait[t] ~> pc[t] = "idle"

-----------------------------------------------------------------------------
(* The contract of the server, and the phase it is in.                     *)
Phase ==
  IF listening THEN "listening"
  ELSE IF \E t \in Callers : pc[t] = "stop_wait" THEN "stopping"
  ELSE "stopped"

Contract == INSTANCE ServerContract WITH phase <- Phase, live <- conn_pool

\* The server keeps its contract: listen() admits a connection only while the
\* server listens, and stop() ends only when the pool is empty.
KeepsContract == Contract!Spec
=============================================================================
