----------------------------- MODULE RequestReader -----------------------------
(***************************************************************************)
(* The read timeout of http_request_reader (read_bytes_with_timeout) on    *)
(* one tcp_connection: the connection's socket, its steady_timer and its   *)
(* strand.                                                                 *)
(*                                                                         *)
(* Every handler of the connection runs in the strand, except that the     *)
(* first read of a connection is started by handle_accept or               *)
(* handle_ssl_handshake outside of it: the read can complete, and its      *)
(* handler run on another worker, before the wait on the timer is started. *)
(*                                                                         *)
(* Reads are numbered; the wait that read n starts is the n-th.  What the  *)
(* server does with the bytes is a choice here: read on, do something else *)
(* on the socket (write a response, serve a websocket), or be done.        *)
(***************************************************************************)
EXTENDS Naturals, FiniteSets

CONSTANTS
  Workers,    \* threads of the scheduler's pool
  NoWorker,   \* the owner of a free strand
  MaxReads    \* bound: reads on the connection

ASSUME WorkersAssumption == NoWorker \notin Workers
ASSUME MaxReadsAssumption == MaxReads \in Nat

Reads == 1 .. MaxReads

VARIABLES
  open,    \* is the socket open?
  io,      \* the operation pending on the socket: "none", "read" or "other"
  result,  \* its result once its handler is queued: "ok", "err" or "aborted"
  reads,   \* number of reads started
  wait,    \* the timer waits: "none", "pending", or how a queued handler will
           \* be called, "expired" or "aborted"
  strand,  \* the worker inside the strand between two steps
  pc       \* the read whose wait a worker has yet to start, or 0

readerVars == <<open, io, result, reads, wait, strand, pc>>

ReaderInit ==
  /\ open = TRUE
  /\ io = "none"
  /\ result = "none"
  /\ reads = 0
  /\ wait = [n \in Reads |-> "none"]
  /\ strand = NoWorker
  /\ pc = [w \in Workers |-> 0]

-----------------------------------------------------------------------------
\* expires_from_now() and cancel() abort the waits that have not expired.
Aborted(ws) == [n \in Reads |-> IF ws[n] = "pending" THEN "aborted" ELSE ws[n]]

\* Faulty variant: the timer is not set anew, so earlier waits stay pending.
StartReadNoReset(w) ==
  /\ reads < MaxReads
  /\ reads' = reads + 1
  /\ io' = "read" /\ result' = "none"
  /\ pc' = [pc EXCEPT ![w] = reads + 1]
  /\ UNCHANGED wait

\* read_bytes_with_timeout up to async_read_some: the timer is set, which
\* aborts earlier waits, and the read is started.
StartRead(w) ==
  /\ reads < MaxReads
  /\ reads' = reads + 1
  /\ wait' = Aborted(wait)
  /\ io' = "read" /\ result' = "none"
  /\ pc' = [pc EXCEPT ![w] = reads + 1]

\* handle_connection of a new connection, outside the strand.
HandleConnection(w) ==
  /\ reads = 0 /\ io = "none" /\ open
  /\ pc[w] = 0
  /\ StartRead(w)
  /\ UNCHANGED <<open, strand>>

\* Faulty variant: only the first read of a connection is timed.
AsyncWaitOnce(w) ==
  /\ pc[w] # 0
  /\ wait' = [wait EXCEPT ![pc[w]] = IF pc[w] = 1 THEN "pending" ELSE @]
  /\ pc' = [pc EXCEPT ![w] = 0]
  /\ strand' = IF strand = w THEN NoWorker ELSE strand
  /\ UNCHANGED <<open, io, result, reads>>

\* timer.async_wait, the last call of read_bytes_with_timeout; the handler that
\* made it ends here.
AsyncWait(w) ==
  /\ pc[w] # 0
  /\ wait' = [wait EXCEPT ![pc[w]] = "pending"]
  /\ pc' = [pc EXCEPT ![w] = 0]
  /\ strand' = IF strand = w THEN NoWorker ELSE strand
  /\ UNCHANGED <<open, io, result, reads>>

-----------------------------------------------------------------------------
(* The socket and the timer (asio), and stop()                             *)

\* Data or an error from the client; on a closed socket there are only errors.
Completes ==
  /\ io # "none" /\ result = "none"
  /\ \E r \in {"ok", "err"} : (r = "ok" => open) /\ result' = r
  /\ UNCHANGED <<open, io, reads, wait, strand, pc>>

\* The time the timer was set to has come, for all waits on it.
TimerExpires ==
  /\ \E n \in Reads : wait[n] = "pending"
  /\ wait' = [n \in Reads |-> IF wait[n] = "pending" THEN "expired" ELSE wait[n]]
  /\ UNCHANGED <<open, io, result, reads, strand, pc>>

\* The pending operation is aborted; a completed one is not.
AbortedResult == IF io # "none" /\ result = "none" THEN "aborted" ELSE result

\* stop(false) closes the socket from another thread.
CloseSocket ==
  /\ open
  /\ open' = FALSE
  /\ result' = AbortedResult
  /\ UNCHANGED <<io, reads, wait, strand, pc>>

-----------------------------------------------------------------------------
(* Handlers that run in the strand                                         *)

Enters(w) == strand = NoWorker /\ pc[w] = 0

\* Faulty variant: the error code is tested the wrong way round.
TimeoutInverted(w, n) ==
  /\ Enters(w)
  /\ wait[n] \in {"expired", "aborted"}
  /\ result' = IF wait[n] = "aborted" THEN AbortedResult ELSE result
  /\ wait' = [wait EXCEPT ![n] = "none"]
  /\ UNCHANGED <<open, io, reads, strand, pc>>

\* timeout_handler: conn->cancel() unless the wait was aborted.
Timeout(w, n) ==
  /\ Enters(w)
  /\ wait[n] \in {"expired", "aborted"}
  /\ result' = IF wait[n] = "expired" THEN AbortedResult ELSE result
  /\ wait' = [wait EXCEPT ![n] = "none"]
  /\ UNCHANGED <<open, io, reads, strand, pc>>

\* The connection goes on to a write or to a websocket, or is finished.
Proceed ==
  /\ \/ io' = "other" /\ UNCHANGED open
     \/ io' = "none" /\ open' = FALSE
  /\ result' = "none"
  /\ UNCHANGED <<reads, strand, pc>>

\* read_handler: the timer is cancelled unless the read was aborted; then the
\* bytes are consumed, and more are read if the message is not complete.
ReadHandler(w) ==
  /\ Enters(w)
  /\ io = "read" /\ result # "none"
  /\ \/ result = "ok" /\ StartRead(w) /\ strand' = w /\ UNCHANGED open
     \/ Proceed /\ wait' = IF result = "aborted" THEN wait ELSE Aborted(wait)

\* A response is sent, or a websocket has ended: the connection is finished,
\* kept alive for another request, or used further.
OtherHandler(w) ==
  /\ Enters(w)
  /\ io = "other" /\ result # "none"
  /\ \/ StartRead(w) /\ strand' = w /\ UNCHANGED open
     \/ Proceed /\ UNCHANGED wait

Worker(w) ==
  \/ AsyncWait(w)
  \/ ReadHandler(w) \/ OtherHandler(w)
  \/ \E n \in Reads : Timeout(w, n)

ReaderNext ==
  \/ \E w \in Workers : HandleConnection(w) \/ Worker(w)
  \/ Completes \/ TimerExpires \/ CloseSocket

ReaderSpec == ReaderInit /\ [][ReaderNext]_readerVars

(***************************************************************************)
(* Fairness: workers run queued handlers and go on inside them, and time   *)
(* passes.  Nothing makes the client send or receive anything.             *)
(***************************************************************************)
Fairness ==
  /\ \A w \in Workers : WF_readerVars(AsyncWait(w))
  /\ WF_readerVars(\E w \in Workers : ReadHandler(w) \/ OtherHandler(w))
  /\ \A n \in Reads : WF_readerVars(\E w \in Workers : Timeout(w, n))
  /\ WF_readerVars(TimerExpires)

FairSpec == ReaderSpec /\ Fairness

-----------------------------------------------------------------------------
(* Properties                                                              *)

\* The type of every variable.
TypeOK ==
  /\ open \in BOOLEAN
  /\ io \in {"none", "read", "other"}
  /\ result \in {"none", "ok", "err", "aborted"}
  /\ reads \in 0 .. MaxReads
  /\ wait \in [Reads -> {"none", "pending", "expired", "aborted"}]
  /\ strand \in Workers \cup {NoWorker}
  /\ pc \in [Workers -> 0 .. MaxReads]

\* A read never waits for the client without a timer: a wait is running or has
\* expired, or a worker is just about to start it.  This is why the code starts
\* the read before the wait: the other way round a wait could expire in between.
ReadHasTimer ==
  io = "read" /\ result = "none" =>
    \/ \E w \in Workers : pc[w] = reads
    \/ \E n \in Reads : wait[n] \in {"pending", "expired"}

\* Waits do not pile up on a connection that is kept alive: at most the one of
\* the current read and the belated one of the first read are running.
WaitsBounded ==
  \A n \in Reads : wait[n] = "pending" => n \in {1, reads}

\* A read comes to an end, however silent the client.
ReadEnds ==
  io = "read" /\ result = "none" ~> result # "none"

\* The "timeout for read operations" aborts reads and nothing else.  The code
\* does not have this property: an expired wait whose read has just completed
\* cancels what comes next on the socket.
TimeoutOnlyReads ==
  [][result = "none" /\ result' = "aborted" /\ open' = open => io = "read"]_readerVars
=============================================================================
