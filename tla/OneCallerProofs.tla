-------------------------- MODULE OneCallerProofs --------------------------
(***************************************************************************)
(* Proofs about a TcpServer that one thread starts and stops: start() and  *)
(* stop() do not overlap.  Two of the theorems also assume the option that *)
(* the code is safe for, as their comments say.                            *)
(***************************************************************************)
EXTENDS TcpServerProofs

(* A server whose callers call start() and stop() in turn.                 *)

OneCaller == \A t, u \in Callers : t = u

\* The only caller starts a server of which nothing is in use any more.
LEMMA StartFromQuiet ==
  ASSUME IInv, OneCaller, NEW t \in Callers, Start(t)
  PROVE  /\ \A c \in Conns : op[c] = "none"
         /\ \A w \in Workers : pc[w] \in {"idle", "leave"} /\ cur[w] = NoConn
<1>1. conn_pool = {}
  BY Zenon DEF Start, OneCaller, IInv, StoppedEmpty
<1>2. \A c \in Conns : ~InUse(c)
  BY <1>1, Zenon DEF IInv, PoolCoversActive
<1>3. \A w \in Workers : cur[w] = NoConn
  BY <1>2, Zenon DEF InUse, IInv, TypeOK
<1> QED
  BY <1>2, <1>3, Zenon DEF InUse, IInv, Hands

\* Where a request, a response or a finished handler leaves its worker.
LEMMA RespondGoes ==
  ASSUME NEW w, NEW c, Respond(w, c)
  PROVE  Take(w, c, "finish") \/ \E o \in {"none", "write"} : Await(w, c, o)
  BY Zenon DEF Respond, Drop

LEMMA ConsumeGoes ==
  ASSUME NEW w, NEW c, Consume(w, c)
  PROVE  Take(w, c, "finish") \/ \E o \in {"none", "read", "write"} : Await(w, c, o)
  BY RespondGoes, Zenon DEF Consume, Upgrade

LEMMA HandleGoes ==
  ASSUME NEW w, NEW c,
         HandleSslHandshake(w, c) \/ HandleRead(w, c) \/ HandleWrite(w, c)
  PROVE  Take(w, c, "finish") \/ \E o \in {"none", "read", "write"} : Await(w, c, o)
  BY RespondGoes, ConsumeGoes, Zenon
     DEF HandleSslHandshake, HandleRead, ReadError, Upgrade, HandleWrite

\* Connections that wait for a client, and threads on their way to listen().
Accepting == {c \in Conns : op[c] = "accept"}
Coming == {t \in Threads : pc[t] \in ListenLabels}

Chain ==
  /\ \A c, d \in Accepting : c = d
  /\ \A t, u \in Coming : t = u
  /\ Accepting = {} \/ Coming = {}

LEMMA ChainShrinks ==
  ASSUME Chain, Accepting' \subseteq Accepting, Coming' \subseteq Coming
  PROVE  Chain'
  BY Zenon DEF Chain

\* A worker that leaves an operation pending, or nothing, goes nowhere else.
LEMMA AwaitGoes ==
  ASSUME TypeOK, NEW w \in Workers, NEW c \in Conns, NEW o, Await(w, c, o)
  PROVE  /\ op'[c] = o /\ \A d \in Conns \ {c} : op'[d] = op[d]
         /\ \A v \in Workers \ {w} : cur'[v] = cur[v]
         /\ pc'[w] \in {"idle", "leave"} /\ \A t \in Threads \ {w} : pc'[t] = pc[t]
<1> DEFINE l == IF o = "none" THEN "leave" ELSE "idle"
<1>1. /\ op' = [op EXCEPT ![c] = o]
      /\ cur' = [cur EXCEPT ![w] = NoConn]
      /\ pc' = [pc EXCEPT ![w] = l]
  BY Zenon DEF Await, Depart, Goto
<1>2. l \in {"idle", "leave"}
  BY Zenon
<1> HIDE DEF l
<1> QED
  BY <1>1, <1>2, Zenon DEF TypeOK, Threads

LEMMA GoesShrinks ==
  ASSUME TypeOK, NEW w \in Workers, NEW c \in Conns,
         Take(w, c, "finish") \/ \E o \in {"none", "read", "write"} : Await(w, c, o)
  PROVE  Accepting' \subseteq Accepting /\ Coming' \subseteq Coming
<1>1. CASE Take(w, c, "finish")
  BY <1>1, Zenon DEF Take, Goto, Accepting, Coming, ListenLabels, TypeOK
<1>2. ASSUME NEW o \in {"none", "read", "write"}, Await(w, c, o)
      PROVE  Accepting' \subseteq Accepting /\ Coming' \subseteq Coming
  <2>0. /\ op'[c] = o /\ \A d \in Conns \ {c} : op'[d] = op[d]
        /\ pc'[w] \in {"idle", "leave"} /\ \A t \in Threads \ {w} : pc'[t] = pc[t]
    BY <1>2, AwaitGoes
  <2>1. Accepting' \subseteq Accepting
    BY <2>0, Zenon DEF Accepting
  <2>2. Coming' \subseteq Coming
    BY <2>0 DEF Coming, ListenLabels
  <2> QED
    BY <2>1, <2>2, Zenon
<1> QED
  BY <1>1, <1>2, Zenon

\* A thread that was on its way to listen() and has been there.
LEMMA ListenChain ==
  ASSUME TypeOK, Chain, NEW t \in Coming, NEW f \in [Conns -> Operations],
         \A c \in Conns : f[c] = "accept" => op[c] = "accept",
         Listen(f), NEW l, l \notin ListenLabels, Goto(t, l)
  PROVE  Chain'
<1>1. Accepting = {} /\ Coming = {t}
  BY Zenon DEF Chain
<1>2. Coming' = {}
  BY <1>1, Zenon DEF Coming, Goto, TypeOK
<1>3. \A c, d \in Accepting' : c = d
  BY <1>1, Zenon DEF Accepting, Listen, Free
<1> QED
  BY <1>2, <1>3, Zenon DEF Chain

LEMMA ContinueChain ==
  ASSUME IInv, Chain, NEW w \in Workers, Continue(w)
  PROVE  Chain'
<1> USE DEF IInv
<1>5. CASE Leave(w)
  <2>1. Accepting' \subseteq Accepting /\ Coming' \subseteq Coming
    BY <1>5, Zenon DEF Leave, Goto, Accepting, Coming, ListenLabels, TypeOK
  <2> QED
    BY <2>1, ChainShrinks, Zenon
<1> SUFFICES ASSUME ~Leave(w) PROVE Chain'
  BY <1>5, Zenon
<1>1. w \in Threads /\ cur[w] \in Conns
  BY CurConn, Zenon DEF Threads, Continue, AcceptListen, FinishKeepAlive,
                 FinishPipelined, FinishClose, PipelinedRequest
<1>2. CASE AcceptListen(w)
  <2>1. w \in Coming
    BY <1>1, <1>2, Zenon DEF AcceptListen, Coming, ListenLabels
  <2> DEFINE f == [op EXCEPT ![cur[w]] = FirstOperation]
  <2>2. f \in [Conns -> Operations] /\ \A c \in Conns : f[c] = "accept" => op[c] = "accept"
    BY <1>1, Zenon DEF TypeOK, FirstOperation, Operations
  <2>3. \/ Listen(f) /\ Goto(w, "idle")
        \/ Listen(op) /\ Goto(w, "finish")
    BY <1>2, Zenon DEF AcceptListen, Depart, FirstOperation
  <2> QED
    BY <2>1, <2>2, <2>3, ListenChain, Zenon DEF TypeOK, ListenLabels
<1>3. CASE FinishKeepAlive(w) \/ FinishPipelined(w) \/ FinishClose(w)
  <2>1. Accepting' \subseteq Accepting /\ Coming' \subseteq Coming
    BY <1>1, <1>3, Zenon DEF FinishKeepAlive, FinishPipelined, FinishClose, Drop, Await,
       Depart, Goto, Accepting, Coming, ListenLabels, TypeOK
  <2> QED
    BY <2>1, ChainShrinks, Zenon
<1>4. CASE PipelinedRequest(w)
  <2>1. Accepting' \subseteq Accepting /\ Coming' \subseteq Coming
    BY <1>1, <1>4, ConsumeGoes, GoesShrinks, Zenon DEF PipelinedRequest
  <2> QED
    BY <2>1, ChainShrinks, Zenon
<1> QED
  BY <1>2, <1>3, <1>4, Zenon DEF Continue

LEMMA StepChain == IInv /\ OneCaller /\ Chain /\ [Next]_vars => Chain'
<1> SUFFICES ASSUME IInv, OneCaller, Chain, [Next]_vars PROVE Chain'
  BY Zenon
<1> USE DEF IInv
<1>1. ASSUME NEW t \in Callers, Start(t) PROVE Chain'
  <2>1. Accepting = {} /\ Coming' \subseteq {t}
    BY <1>1, StartFromQuiet, Zenon
       DEF Accepting, Coming, Start, Goto, OneCaller, Threads, TypeOK, ListenLabels
  <2>2. Accepting' = Accepting
    BY <1>1, Zenon DEF Start, Accepting
  <2> QED
    BY <2>1, <2>2, Zenon DEF Chain
<1>2. ASSUME NEW t \in Callers, StartListen(t) PROVE Chain'
  <2>1. t \in Coming
    BY <1>2, Zenon DEF StartListen, Coming, Threads, ListenLabels
  <2> QED
    BY <1>2, <2>1, ListenChain, Zenon DEF StartListen, TypeOK, ListenLabels
<1>3. ASSUME NEW t \in Callers,
             \/ CallStop(t) \/ StartAdd(t) \/ StopIgnored(t)
             \/ StopBegin(t) \/ StopWake(t)
      PROVE  Chain'
  <2>1. Accepting' = Accepting /\ Coming' \subseteq Coming
    BY <1>3, Zenon DEF CallStop, StartAdd, StopIgnored, StopBegin, StopWake, Drain, Goto,
       Accepting, Coming, ListenLabels, TypeOK
  <2> QED
    BY <2>1, ChainShrinks, Zenon
<1>4. ASSUME NEW c \in Conns,
             \/ AcceptCompletes(c) \/ Completes(c)
             \/ WaitEnds(c) \/ Broadcast(c) \/ BroadcastRuns(c)
      PROVE  Chain'
  <2>1. Accepting' = Accepting /\ Coming' = Coming
    BY <1>4, Zenon
       DEF AcceptCompletes, Completes, WaitEnds, Broadcast, BroadcastRuns, Accepting, Coming
  <2> QED
    BY <2>1, ChainShrinks, Zenon
<1>5. ASSUME NEW w \in Workers, NEW c \in Conns, HandleAccept(w, c) PROVE Chain'
  <2>1. Accepting = {c} /\ Coming = {}
    BY <1>5, Zenon DEF HandleAccept, Ready, Accepting, Chain
  <2>2. Accepting' = {} /\ Coming' \subseteq {w}
    <3>1. \E o \in {"none", "handshake", "read"} : op' = [op EXCEPT ![c] = o]
      BY <1>5, Zenon DEF HandleAccept, Take, Await, FirstOperation
    <3>2. \E l : pc' = [pc EXCEPT ![w] = l]
      BY <1>5, Zenon DEF HandleAccept, Take, Await, Depart, Goto
    <3>3. Accepting' = {}
      BY <2>1, <3>1, Zenon DEF Accepting, TypeOK
    <3> QED
      BY <2>1, <3>2, <3>3, Zenon DEF Coming, TypeOK
  <2> QED
    BY <2>2, Zenon DEF Chain
<1>6. ASSUME NEW w \in Workers, NEW c \in Conns,
             HandleSslHandshake(w, c) \/ HandleRead(w, c) \/ HandleWrite(w, c)
      PROVE  Chain'
  <2>1. Accepting' \subseteq Accepting /\ Coming' \subseteq Coming
    BY <1>6, HandleGoes, GoesShrinks, Zenon
  <2> QED
    BY <2>1, ChainShrinks, Zenon
<1>7. CASE UNCHANGED vars
  <2>1. Accepting' = Accepting /\ Coming' = Coming
    BY <1>7, Zenon DEF vars, Accepting, Coming
  <2> QED
    BY <2>1, ChainShrinks, Zenon
<1> QED
  BY <1>1, <1>2, <1>3, <1>4, <1>5, <1>6, <1>7, ContinueChain, Zenon
     DEF Next, Caller, Handle

LEMMA AtMostOne ==
  ASSUME NEW S, \A x, y \in S : x = y
  PROVE  Cardinality(S) \in {0, 1} /\ (S = {} => Cardinality(S) = 0)
<1>1. CASE S = {}
  BY <1>1, FS_EmptySet, Zenon
<1>2. CASE S # {}
  <2> PICK x \in S : S = {x}
    BY <1>2, Zenon
  <2> QED
    BY <1>2, FS_Singleton, Zenon
<1> QED
  BY <1>1, <1>2, Zenon

\* Starting and stopping in turn never doubles the chain of accepts, for any
\* number of workers and connections: a handle_accept that read `listening'
\* before a stop() cannot survive into the next start().
THEOREM OneAcceptChainHolds ==
  ASSUME OneCaller
  PROVE  Spec => []OneAcceptChain
<1>1. Init => Chain
  BY Zenon DEF Init, Chain, Accepting, Coming, ListenLabels
<1>2. Chain => OneAcceptChain
  <2> SUFFICES ASSUME Chain PROVE OneAcceptChain
    BY Zenon
  <2>1. /\ Cardinality(Accepting) \in {0, 1}
        /\ Cardinality(Coming) \in {0, 1}
        /\ Cardinality(Accepting) = 0 \/ Cardinality(Coming) = 0
    BY AtMostOne, Zenon DEF Chain
  <2>2. Cardinality(Accepting) + Cardinality(Coming) <= 1
    BY <2>1
  <2> QED
    BY <2>2, Zenon DEF OneAcceptChain, Accepting, Coming
<1>3. IInv /\ Chain /\ [Next]_vars => Chain'
  BY StepChain, Zenon
<1> QED
  BY <1>1, <1>2, <1>3, InvariantHolds, PTL DEF Spec

\* While the only caller waits in stop(), no socket can open.
Closing ==
  \A t \in Callers : pc[t] = "stop_wait" =>
    /\ ~listening /\ ~acceptor
    /\ ~wait[t] => \A c \in conn_pool : ~sock[c]

\* A step that opens no socket, admits no connection and keeps the callers.
LEMMA ClosingShrinks ==
  ASSUME TypeOK, Closing, UNCHANGED <<listening, acceptor, wait>>,
         \A t \in Callers : pc'[t] = pc[t],
         ~acceptor => /\ conn_pool' \subseteq conn_pool
                      /\ \A c \in Conns : sock'[c] => sock[c]
  PROVE  Closing'
  BY Zenon DEF Closing, TypeOK

LEMMA ListenShuts ==
  ASSUME TypeOK, NEW f, Listen(f), ~listening
  PROVE  conn_pool' = conn_pool /\ sock' = sock
  BY Zenon DEF Listen

LEMMA WaitKept ==
  ASSUME TypeOK, NEW t \in Callers, Drain(t), pc'[t] = "stop_wait"
  PROVE  wait'[t] = wait[t]
<1>1. conn_pool' # {}
  BY Zenon DEF Drain, Goto, TypeOK, Threads
<1>2. wait' = [wait EXCEPT ![t] = @ /\ conn_pool' # {}] /\ wait[t] \in BOOLEAN
  BY Zenon DEF Drain, TypeOK
<1> QED
  BY <1>1, <1>2, Zenon DEF TypeOK

\* A holder that lets go of a connection opens no socket, and closes none of a
\* connection in use.
LEMMA LetGoCloses ==
  ASSUME TypeOK, NEW c \in Conns, NEW H, LetGo(c, H)
  PROVE  /\ \A x \in Conns : sock'[x] => sock[x]
         /\ \A x \in Conns : InUse(x) => sock'[x] = sock[x]
<1>1. sock' = [sock EXCEPT ![c] = @ /\ (c \in conn_pool \/ InUse(c) \/ H # {})]
  BY Zenon DEF LetGo
<1> QED
  BY <1>1, Zenon DEF TypeOK

LEMMA StepClosing ==
  IInv /\ OneCaller /\ ~AssignOnDispatch /\ Closing /\ [Next]_vars => Closing'
<1> SUFFICES ASSUME IInv, OneCaller, ~AssignOnDispatch, Closing, [Next]_vars
             PROVE  Closing'
  BY Zenon
<1> USE DEF IInv
<1>1. ASSUME NEW t \in Callers,
             Start(t) \/ CallStop(t) \/ StartListen(t) \/ StartAdd(t) \/ StopIgnored(t)
      PROVE  Closing'
  <2>1. pc'[t] # "stop_wait"
    BY <1>1, Zenon DEF Start, CallStop, StartListen, StartAdd, StopIgnored, Goto, TypeOK,
       Threads
  <2> QED
    BY <2>1, Zenon DEF OneCaller, Closing
<1>2. ASSUME NEW t \in Callers, StopBegin(t) PROVE Closing'
  <2>1. /\ ~listening' /\ ~acceptor' /\ conn_pool' \subseteq conn_pool
        /\ Close(IF wait[t] THEN Orphans ELSE conn_pool)
    BY <1>2, Zenon DEF StopBegin, Drain
  <2>3. pc'[t] = "stop_wait" => wait'[t] = wait[t]
    BY <1>2, WaitKept, Zenon DEF StopBegin
  <2>2. ~wait[t] => \A c \in conn_pool' : ~sock'[c]
    BY <2>1, Zenon DEF Close, TypeOK
  <2> QED
    BY <2>1, <2>2, <2>3, Zenon DEF Closing, OneCaller
<1>3. ASSUME NEW t \in Callers, StopWake(t) PROVE Closing'
  <2>1. /\ pc[t] = "stop_wait" /\ UNCHANGED <<listening, acceptor>>
        /\ conn_pool' \subseteq conn_pool /\ \A c \in Conns : sock'[c] => sock[c]
        /\ pc'[t] = "stop_wait" => wait'[t] = wait[t]
    BY <1>3, WaitKept, Zenon DEF StopWake, Drain, Close
  <2> QED
    BY <2>1, Zenon DEF Closing, OneCaller, TypeOK
<1>11. ASSUME NEW c \in Conns, WaitEnds(c) \/ Broadcast(c) \/ BroadcastRuns(c)
       PROVE  Closing'
  <2>1. \A x \in Conns : sock'[x] => sock[x]
    BY <1>11, LetGoCloses, Zenon DEF WaitEnds, Broadcast, BroadcastRuns
  <2> QED
    BY <1>11, <2>1, ClosingShrinks, Zenon DEF WaitEnds, Broadcast, BroadcastRuns, server
<1>4. ASSUME NEW c \in Conns, AcceptCompletes(c) \/ Completes(c) PROVE Closing'
  BY <1>4, ClosingShrinks, Zenon DEF AcceptCompletes, Completes, server
<1>5. ASSUME NEW w \in Workers, NEW l, Goto(w, l)
      PROVE  \A t \in Callers : pc'[t] = pc[t]
  BY <1>5, ThreadsAssumption, Zenon DEF Goto, TypeOK, Threads
<1>6. ASSUME NEW w \in Workers, NEW c \in Conns, Handle(w, c) PROVE Closing'
  <2>1. \A t \in Callers : pc'[t] = pc[t]
    BY <1>5, <1>6, HandlersPass, Zenon DEF Handle, Passes, Take, Await, Depart
  <2>2. /\ UNCHANGED <<listening, acceptor, wait, conn_pool>>
        /\ \A x \in Conns : sock'[x] => sock[x]
    BY <1>6, Zenon DEF Handle, HandleAccept, HandleSslHandshake, HandleRead, HandleWrite,
       server, TypeOK
  <2> QED
    BY <2>1, <2>2, ClosingShrinks, Zenon
<1>7. ASSUME NEW w \in Workers, AcceptListen(w) PROVE Closing'
  <2>1. \A t \in Callers : pc'[t] = pc[t]
    BY <1>5, <1>7, Zenon DEF AcceptListen, Depart
  <2>2. /\ UNCHANGED <<listening, acceptor, wait>>
        /\ ~listening => conn_pool' = conn_pool /\ sock' = sock
    BY <1>7, ListenShuts, Zenon DEF AcceptListen, server
  <2> QED
    BY <2>1, <2>2, Zenon DEF Closing
<1>8. ASSUME NEW w \in Workers, FinishKeepAlive(w) \/ FinishPipelined(w) \/ FinishClose(w)
      PROVE  Closing'
  <2>1. \A t \in Callers : pc'[t] = pc[t]
    BY <1>5, <1>8, Zenon DEF FinishKeepAlive, FinishPipelined, FinishClose, Drop, Await,
       Depart
  <2> QED
    BY <1>8, <2>1, ClosingShrinks, Zenon
       DEF FinishKeepAlive, FinishPipelined, FinishClose, Close, server
<1>9. ASSUME NEW w \in Workers, PipelinedRequest(w) PROVE Closing'
  <2>1. \A t \in Callers : pc'[t] = pc[t]
    BY <1>5, <1>9, ConsumeGoes, Zenon DEF PipelinedRequest, Take, Await, Depart
  <2> QED
    BY <1>9, <2>1, ClosingShrinks, Zenon DEF PipelinedRequest, server
<1>10. CASE UNCHANGED vars
  BY <1>10, ClosingShrinks, Zenon DEF vars
<1>12. ASSUME NEW w \in Workers, Leave(w) PROVE Closing'
  <2>1. \A t \in Callers : pc'[t] = pc[t]
    BY <1>5, <1>12, Zenon DEF Leave
  <2>2. \A x \in Conns : sock'[x] => sock[x]
    BY <1>12, LetGoCloses, Zenon DEF Leave
  <2> QED
    BY <1>12, <2>1, <2>2, ClosingShrinks, Zenon DEF Leave, server
<1> QED
  BY <1>1, <1>2, <1>3, <1>4, <1>6, <1>7, <1>8, <1>9, <1>10, <1>11, <1>12, Zenon
     DEF Next, Caller, Continue

\* stop(false) waits for closed connections only, so that it has to wait for
\* handlers and for nothing a client does.  This rests on accepted sockets
\* being assigned on completion: closing the acceptor is then final.
THEOREM StopTerminatesAllHolds ==
  ASSUME OneCaller, ~AssignOnDispatch
  PROVE  Spec => []StopTerminatesAll
<1>1. Init => Closing
  BY Zenon DEF Init, Closing, Threads
<1>2. Closing => StopTerminatesAll
  BY Zenon DEF Closing, StopTerminatesAll
<1>3. IInv /\ Closing /\ [Next]_vars => Closing'
  BY StepClosing, Zenon
<1> QED
  BY <1>1, <1>2, <1>3, InvariantHolds, PTL DEF Spec

-----------------------------------------------------------------------------
(* finish_connection and the lock.                                         *)

\* Only a pipelined request is served with the mutex locked.
Lock ==
  /\ mutex # NoThread => mutex \in Workers /\ pc[mutex] = "pipelined"
  /\ \A w \in Workers : pc[w] = "pipelined" => mutex = w /\ listening

\* While the server listens, a connection in use is open unless its accept
\* failed, and such a connection is not kept alive.
OpenConn(c) ==
  /\ op[c] = "none" => done[c] = "none"
  /\ op[c] = "accept" => lifecycle[c] = "close"
  /\ listening /\ op[c] \in {"handshake", "read", "write"} => sock[c]
  /\ listening /\ op[c] = "accept" /\ done[c] = "ok" => sock[c] \/ AssignOnDispatch

OpenHand(w) ==
  /\ pc[w] = "listen_err" => lifecycle[cur[w]] = "close"
  /\ listening /\ pc[w] \in {"listen_ok", "pipelined"} => sock[cur[w]]
  /\ listening /\ pc[w] = "finish" => sock[cur[w]] \/ lifecycle[cur[w]] = "close"

Unlocked ==
  /\ Lock
  /\ \A c \in Conns : OpenConn(c)
  /\ \A w \in Workers : OpenHand(w)

\* Worker w and the connection c it holds are the only ones to change.
Only(w, c) ==
  /\ listening' = listening
  /\ \A d \in Conns \ {c} : /\ op'[d] = op[d] /\ done'[d] = done[d]
                            /\ sock'[d] = sock[d] /\ lifecycle'[d] = lifecycle[d]
  /\ \A v \in Workers \ {w} : pc'[v] = pc[v] /\ cur'[v] = cur[v]

LEMMA OthersStayOpen ==
  ASSUME IInv, Unlocked, NEW w \in Workers, NEW c \in Conns, Holds(w, c), Only(w, c)
  PROVE  /\ \A d \in Conns \ {c} : OpenConn(d)'
         /\ \A v \in Workers \ {w} : OpenHand(v)'
<1>1. \A v \in Workers \ {w} :
        pc[v] \notin {"idle", "leave"} => cur[v] \in Conns \ {c}
  <2> TAKE v \in Workers \ {w}
  <2>1. pc[v] \notin {"idle", "leave"} => cur[v] \in Conns /\ op[cur[v]] = "none"
    BY CurConn, ConnsAssumption, Zenon DEF IInv, Exclusive
  <2>2. cur[v] # NoConn => cur[v] # cur[w]
    BY Zenon DEF IInv, Exclusive
  <2> QED
    BY <2>1, <2>2, ConnsAssumption, Zenon DEF Holds
<1>2. \A d \in Conns \ {c} : OpenConn(d)'
  BY Zenon DEF Only, Unlocked, OpenConn
<1>3. \A v \in Workers \ {w} : OpenHand(v)'
  BY <1>1 DEF Only, Unlocked, OpenHand
<1> QED
  BY <1>2, <1>3, Zenon

\* A handler of a worker that does not have the lock.
LEMMA LockKept ==
  ASSUME IInv, Lock, NEW w \in Workers, mutex' = mutex, listening' = listening,
         pc[w] # "pipelined", pc'[w] # "pipelined",
         \A v \in Workers \ {w} : pc'[v] = pc[v]
  PROVE  Lock'
  BY Zenon DEF Lock

LEMMA HandleUnlocked ==
  ASSUME IInv, Unlocked, NEW w \in Workers, NEW c \in Conns, Handle(w, c)
  PROVE  Unlocked'
<1> USE ConnsAssumption DEF IInv
<1>1. pc[w] = "idle" /\ op[c] # "none" /\ Passes(w, c) /\ Holds(w, c)
  BY HandlersPass, Zenon DEF Handle, Hands, Holds
<1>2. Only(w, c)
  <2>1. /\ \A d \in Conns \ {c} : op'[d] = op[d]
        /\ \A v \in Workers \ {w} : pc'[v] = pc[v] /\ cur'[v] = cur[v]
    BY <1>1, Zenon DEF Passes, Take, Await, Depart, Goto, TypeOK, Threads
  <2>2. listening' = listening /\ \A d \in Conns \ {c} :
          done'[d] = done[d] /\ sock'[d] = sock[d] /\ lifecycle'[d] = lifecycle[d]
    <3>1. lifecycle' = lifecycle \/ \E l : SetLifecycle(c, l)
      BY Zenon DEF Handle, HandleAccept, HandleSslHandshake, HandleRead, HandleWrite,
             Consume, ReadError, Upgrade
    <3>2. \A d \in Conns \ {c} : lifecycle'[d] = lifecycle[d]
      BY <3>1, Zenon DEF SetLifecycle, TypeOK
    <3> QED
      BY <3>2, Zenon DEF Handle, HandleAccept, HandleSslHandshake, HandleRead,
             HandleWrite, server, TypeOK
  <2> QED
    BY <2>1, <2>2, Zenon DEF Only
<1>3. Lock'
  <2>1. mutex' = mutex
    BY Zenon DEF Handle, HandleAccept, HandleSslHandshake, HandleRead, HandleWrite
  <2>2. pc'[w] # "pipelined"
    BY <1>1, Zenon DEF Passes, Take, Await, Depart, Goto, TypeOK, Threads
  <2> QED
    BY <1>1, <1>2, <2>1, <2>2, LockKept, Zenon DEF Only, Unlocked
<1>4. done'[c] = "none"
  BY Zenon DEF Handle, HandleAccept, HandleSslHandshake, HandleRead, HandleWrite, TypeOK
<1>5. OpenConn(c)' /\ OpenHand(w)'
  <2>1. CASE HandleAccept(w, c)
    BY <2>1, <1>4 DEF HandleAccept, Ready, Take, Await, Depart, Goto, FirstOperation, server,
       TypeOK, Threads, Unlocked, OpenConn, OpenHand
  <2>2. CASE HandleSslHandshake(w, c) \/ HandleRead(w, c) \/ HandleWrite(w, c)
    <3>1. /\ listening => sock[c]
          /\ sock' = sock /\ listening' = listening
      BY <2>2, Zenon DEF HandleSslHandshake, HandleRead, HandleWrite, Ready, server,
         Unlocked, OpenConn
    <3>2. CASE Take(w, c, "finish")
      BY <1>4, <3>1, <3>2, Zenon DEF Take, Goto, OpenConn, OpenHand, TypeOK, Threads
    <3>3. ASSUME NEW o \in {"none", "read", "write"}, Await(w, c, o)
          PROVE  OpenConn(c)' /\ OpenHand(w)'
      BY <1>4, <3>1, <3>3, Zenon DEF Await, Depart, Goto, OpenConn, OpenHand, TypeOK, Threads
    <3> QED
      BY <2>2, <3>2, <3>3, HandleGoes, Zenon
  <2> QED
    BY <2>1, <2>2, Zenon DEF Handle
<1> QED
  BY <1>1, <1>2, <1>3, <1>5, OthersStayOpen, Zenon DEF Unlocked

\* listen() closes orphans only, and its new connection is not in use.
LEMMA ListenUnlocked ==
  ASSUME IInv, Unlocked, NEW f \in [Conns -> Operations], Listen(f),
         done' = done, listening' = listening
  PROVE  /\ \A c \in Conns : f[c] = op[c] => OpenConn(c)'
         /\ \A c \in Conns : Referenced(c) => /\ op'[c] = f[c] /\ sock'[c] = sock[c]
                                              /\ lifecycle'[c] = lifecycle[c]
<1>1. CASE listening
  <2> PICK n \in Free :
        /\ Close(Orphans)
        /\ lifecycle' = [lifecycle EXCEPT ![n] = "close"]
        /\ op' = [f EXCEPT ![n] = "accept"]
    BY <1>1, Zenon DEF Listen
  <2>1. n \in Conns /\ ~Referenced(n)
    BY Zenon DEF Free
  <2>2. \A c \in Conns : Referenced(c) => /\ op'[c] = f[c] /\ sock'[c] = sock[c]
                                          /\ lifecycle'[c] = lifecycle[c]
    BY <2>1, Zenon DEF Close, Orphans, IInv, TypeOK
  <2>3. OpenConn(n)'
    BY <2>1, Zenon DEF Referenced, InUse, Unlocked, OpenConn, IInv, TypeOK
  <2>4. ASSUME NEW c \in Conns \ {n}, f[c] = op[c] PROVE OpenConn(c)'
    <3>1. op'[c] = op[c] /\ lifecycle'[c] = lifecycle[c]
      BY <2>4, Zenon DEF IInv, TypeOK
    <3>2. CASE Referenced(c)
      BY <2>2, <3>1, <3>2, Zenon DEF Unlocked, OpenConn
    <3>3. CASE ~Referenced(c)
      BY <3>1, <3>3, Zenon DEF Referenced, InUse, Unlocked, OpenConn
    <3> QED
      BY <3>2, <3>3, Zenon
  <2> QED
    BY <2>2, <2>3, <2>4, Zenon
<1>2. CASE ~listening
  BY <1>2, Zenon DEF Listen, Unlocked, OpenConn
<1> QED
  BY <1>1, <1>2, Zenon

LEMMA AcceptListenUnlocked ==
  ASSUME IInv, Unlocked, NEW w \in Workers, AcceptListen(w)
  PROVE  Unlocked'
<1> USE ConnsAssumption DEF IInv
<1>1. /\ w \in Threads /\ cur[w] \in Conns /\ op[cur[w]] = "none"
      /\ done' = done /\ listening' = listening /\ mutex' = mutex
  BY CurConn, Zenon DEF AcceptListen, Threads, Exclusive, server
<1> PICK c \in Conns : c = cur[w]
  BY <1>1, Zenon
<1> PICK f \in [Conns -> Operations] :
      /\ Listen(f)
      /\ \A d \in Conns \ {cur[w]} : f[d] = op[d]
      /\ \/ /\ pc[w] = "listen_ok" /\ f[cur[w]] = FirstOperation
            /\ cur' = [cur EXCEPT ![w] = NoConn] /\ Goto(w, "idle")
         \/ /\ pc[w] = "listen_err" /\ f[cur[w]] = op[cur[w]]
            /\ cur' = cur /\ Goto(w, "finish")
  <2>1. CASE pc[w] = "listen_ok"
    <3> DEFINE g == [op EXCEPT ![cur[w]] = FirstOperation]
    <3>1. /\ g \in [Conns -> Operations] /\ g[cur[w]] = FirstOperation
          /\ \A d \in Conns \ {cur[w]} : g[d] = op[d]
      BY <1>1, Zenon DEF TypeOK, FirstOperation, Operations
    <3>2. Listen(g) /\ cur' = [cur EXCEPT ![w] = NoConn] /\ Goto(w, "idle")
      BY <2>1, Zenon DEF AcceptListen, Depart, FirstOperation
    <3> HIDE DEF g
    <3> QED
      BY <2>1, <3>1, <3>2, Zenon
  <2>2. CASE pc[w] = "listen_err"
    BY <2>2, Zenon DEF AcceptListen, TypeOK
  <2> QED
    BY <2>1, <2>2, Zenon DEF AcceptListen
<1>2. /\ \A d \in Conns : f[d] = op[d] => OpenConn(d)'
      /\ \A d \in Conns : Referenced(d) => /\ op'[d] = f[d] /\ sock'[d] = sock[d]
                                           /\ lifecycle'[d] = lifecycle[d]
  BY <1>1, ListenUnlocked, Zenon
<1>3. Referenced(cur[w])
  BY Zenon DEF Referenced, InUse
<1>4. /\ \A v \in Workers \ {w} : pc'[v] = pc[v] /\ cur'[v] = cur[v]
      /\ pc'[w] \in {"idle", "finish"}
      /\ pc[w] = "listen_err" => pc'[w] = "finish" /\ cur'[w] = cur[w]
      /\ pc[w] = "listen_ok" => pc'[w] = "idle"
  BY <1>1, Zenon DEF Goto, TypeOK, Threads
<1>5. OpenConn(c)'
  <2>1. CASE pc[w] = "listen_ok"
    BY <1>1, <1>2, <1>3, <2>1, Zenon DEF Unlocked, OpenConn, OpenHand, FirstOperation
  <2>2. CASE pc[w] = "listen_err"
    BY <1>1, <1>2, <2>2, Zenon
  <2> QED
    BY <2>1, <2>2, Zenon
<1>6. \A v \in Workers \ {w} : OpenHand(v)'
  <2> TAKE v \in Workers \ {w}
  <2>1. pc[v] \notin {"idle", "leave"} => cur[v] \in Conns /\ Referenced(cur[v])
    BY CurConn, Zenon DEF Referenced, InUse
  <2> QED
    BY <1>1, <1>2, <1>4, <2>1 DEF Unlocked, OpenHand
<1>7. OpenHand(w)'
  BY <1>1, <1>2, <1>3, <1>4 DEF Unlocked, OpenHand
<1>8. Lock'
  <2>1. pc[w] # "pipelined"
    BY Zenon
  <2> QED
    BY <1>1, <1>4, <2>1, LockKept, Zenon DEF Unlocked
<1> QED
  BY <1>2, <1>5, <1>6, <1>7, <1>8, Zenon DEF Unlocked

LEMMA FinishUnlocked ==
  ASSUME IInv, Unlocked, ~PayloadThrows, NEW w \in Workers,
         FinishKeepAlive(w) \/ FinishPipelined(w) \/ FinishClose(w) \/ PipelinedRequest(w)
  PROVE  Unlocked'
<1> USE ConnsAssumption DEF IInv
<1>1. /\ w \in Threads /\ cur[w] \in Conns /\ op[cur[w]] = "none" /\ Holds(w, cur[w])
      /\ done' = done /\ listening' = listening
  BY CurConn, Zenon DEF FinishKeepAlive, FinishPipelined, FinishClose, PipelinedRequest,
     Threads, Exclusive, Holds, server
<1> PICK c \in Conns : c = cur[w]
  BY <1>1, Zenon
<1>2. done[cur[w]] = "none"
  BY <1>1, Zenon DEF Unlocked, OpenConn
<1>3. CASE FinishKeepAlive(w)
  <2> USE <1>3 DEF FinishKeepAlive, SetLifecycle, Await, Depart, Goto
  <2>1. Only(w, c)
    BY <1>1 DEF Only, TypeOK
  <2>2. sock[cur[w]]
    BY Zenon DEF Unlocked, OpenHand
  <2>3. OpenConn(c)' /\ OpenHand(w)'
    BY <1>1, <2>2, Zenon DEF OpenConn, OpenHand, TypeOK
  <2>4. Lock'
    BY <1>1, LockKept DEF Unlocked, TypeOK
  <2> QED
    BY <1>1, <2>1, <2>3, <2>4, OthersStayOpen, Zenon DEF Unlocked
<1>4. CASE FinishPipelined(w)
  <2> USE <1>4 DEF FinishPipelined, SetLifecycle, Goto
  <2>1. Only(w, c)
    BY <1>1 DEF Only, TypeOK
  <2>2. sock[cur[w]]
    BY Zenon DEF Unlocked, OpenHand
  <2>3. OpenConn(c)' /\ OpenHand(w)'
    BY <1>1, <1>2, <2>2, Zenon DEF OpenConn, OpenHand, TypeOK
  <2>4. Lock'
    BY <1>1, ThreadsAssumption DEF Unlocked, Lock, TypeOK
  <2> QED
    BY <1>1, <2>1, <2>3, <2>4, OthersStayOpen, Zenon DEF Unlocked
<1>5. CASE FinishClose(w)
  <2> USE <1>5 DEF FinishClose, Drop, Await, Depart, Goto
  <2>1. Only(w, c)
    BY <1>1 DEF Only, TypeOK
  <2>2. OpenConn(c)' /\ OpenHand(w)'
    BY <1>1, <1>2, Zenon DEF OpenConn, OpenHand, TypeOK
  <2>3. Lock'
    BY <1>1, LockKept DEF Unlocked, TypeOK
  <2> QED
    BY <1>1, <2>1, <2>2, <2>3, OthersStayOpen, Zenon DEF Unlocked
<1>6. CASE PipelinedRequest(w)
  <2>1. /\ mutex = w /\ listening /\ sock[c] /\ pc[w] = "pipelined"
        /\ Consume(w, c) /\ sock' = sock
        /\ mutex' = IF pc'[w] = "finish" THEN w ELSE NoThread
    BY <1>6, Zenon DEF PipelinedRequest, Unlocked, Lock, OpenHand
  <2>2. /\ \E o \in {"none", "read", "write"} : Await(w, c, o)
        /\ \A d \in Conns \ {c} : lifecycle'[d] = lifecycle[d]
    BY <1>1, <2>1, Zenon DEF Consume, Upgrade, Respond, Drop, SetLifecycle, TypeOK
  <2>7. /\ op'[c] \in {"none", "read", "write"}
        /\ \A d \in Conns \ {c} : op'[d] = op[d]
        /\ \A v \in Workers \ {w} : pc'[v] = pc[v] /\ cur'[v] = cur[v]
        /\ pc'[w] \in {"idle", "leave"}
    BY <2>2, AwaitGoes DEF Threads
  <2>3. Only(w, c)
    BY <1>1, <2>1, <2>2, <2>7, Zenon DEF Only
  <2>4. pc'[w] \in {"idle", "leave"} /\ mutex' = NoThread
    BY <2>1, <2>7, Zenon
  <2>5. OpenConn(c)' /\ OpenHand(w)'
    BY <1>1, <1>2, <2>1, <2>4, <2>7 DEF OpenConn, OpenHand
  <2>6. Lock'
    BY <2>1, <2>3, <2>4 DEF Unlocked, Lock, Only
  <2> QED
    BY <1>1, <2>3, <2>5, <2>6, OthersStayOpen, Zenon DEF Unlocked
<1> QED
  BY <1>3, <1>4, <1>5, <1>6, Zenon

LEMMA CallerUnlocked ==
  ASSUME IInv, Unlocked, OneCaller,
         NEW t \in Callers, Start(t) \/ CallStop(t) \/ Caller(t)
  PROVE  Unlocked'
<1> USE ThreadsAssumption DEF IInv
<1>1. \A w \in Workers : pc'[w] = pc[w] /\ cur'[w] = cur[w]
  BY Zenon DEF Start, CallStop, Caller, StartListen, StartAdd, StopIgnored, StopBegin,
         StopWake, Drain, Goto, TypeOK, Threads
<1>2. CASE Start(t)
  <2>1. /\ \A c \in Conns : op[c] = "none"
        /\ \A w \in Workers : pc[w] \in {"idle", "leave"}
    BY <1>2, StartFromQuiet, Zenon
  <2>2. Lock'
    BY <1>1, <1>2, <2>1, Zenon DEF Start, Unlocked, Lock
  <2>3. \A c \in Conns : OpenConn(c)'
    BY <1>2, <2>1, Zenon DEF Start, Unlocked, OpenConn
  <2>4. \A w \in Workers : OpenHand(w)'
    BY <1>1, <2>1, Zenon DEF OpenHand
  <2> QED
    BY <2>2, <2>3, <2>4, Zenon DEF Unlocked
<1>3. CASE CallStop(t) \/ StartAdd(t) \/ StopIgnored(t)
  <2>1. UNCHANGED <<mutex, listening, sock, lifecycle, op, done>>
    BY <1>3, Zenon DEF CallStop, StartAdd, StopIgnored, server
  <2> QED
    BY <1>1, <2>1 DEF Unlocked, Lock, OpenConn, OpenHand
<1>4. CASE StartListen(t)
  <2>1. /\ Listen(op) /\ op \in [Conns -> Operations]
        /\ UNCHANGED <<mutex, listening, done>>
    BY <1>4, Zenon DEF StartListen, server, TypeOK
  <2>2. /\ \A c \in Conns : OpenConn(c)'
        /\ \A c \in Conns : Referenced(c) => sock'[c] = sock[c] /\ lifecycle'[c] = lifecycle[c]
    BY <2>1, ListenUnlocked, Zenon
  <2>3. \A w \in Workers : pc[w] \notin {"idle", "leave"} => cur[w] \in Conns /\ Referenced(cur[w])
    BY CurConn, Zenon DEF Referenced, InUse
  <2>4. \A w \in Workers : OpenHand(w)'
    BY <1>1, <2>1, <2>2, <2>3 DEF Unlocked, OpenHand
  <2>5. Lock'
    BY <1>1, <2>1, Zenon DEF Unlocked, Lock
  <2> QED
    BY <2>2, <2>4, <2>5, Zenon DEF Unlocked
<1>5. CASE StopBegin(t)
  <2>1. /\ mutex = NoThread /\ mutex' = mutex /\ ~listening'
        /\ UNCHANGED <<lifecycle, op>>
        /\ \A c \in Conns : op[c] # "accept" => done'[c] = done[c]
    BY <1>5, Zenon DEF StopBegin, TypeOK
  <2>2. Lock'
    BY <1>1, <2>1, Zenon DEF Unlocked, Lock
  <2> QED
    BY <1>1, <2>1, <2>2, Zenon DEF Unlocked, OpenConn, OpenHand
<1>6. CASE StopWake(t)
  <2>1. /\ Close(Orphans) /\ UNCHANGED <<mutex, listening, lifecycle, op, done>>
    BY <1>6, Zenon DEF StopWake
  <2>2. \A c \in Conns : Referenced(c) => sock'[c] = sock[c]
    BY <2>1, Zenon DEF Close, Orphans, TypeOK
  <2>3. \A c \in Conns : OpenConn(c)'
    BY <2>1, <2>2, Zenon DEF Referenced, InUse, Unlocked, OpenConn
  <2>4. \A w \in Workers : pc[w] \notin {"idle", "leave"} => cur[w] \in Conns /\ Referenced(cur[w])
    BY CurConn, Zenon DEF Referenced, InUse
  <2>5. \A w \in Workers : OpenHand(w)'
    BY <1>1, <2>1, <2>2, <2>4, Zenon DEF Unlocked, OpenHand
  <2>6. Lock'
    BY <1>1, <2>1, Zenon DEF Unlocked, Lock
  <2> QED
    BY <2>3, <2>5, <2>6, Zenon DEF Unlocked
<1> QED
  BY <1>2, <1>3, <1>4, <1>5, <1>6, Zenon DEF Caller

\* Holders come and go: the sockets of connections in use stay as they are, and
\* a belated timer fails nothing but reads and writes.
LEMMA HoldersUnlocked ==
  ASSUME IInv, Unlocked,
         \/ \E c \in Conns : WaitEnds(c) \/ Broadcast(c) \/ BroadcastRuns(c)
         \/ \E w \in Workers : Leave(w)
  PROVE  Unlocked'
<1> USE DEF IInv
<1>1. /\ UNCHANGED <<mutex, listening, lifecycle, op, cur>>
      /\ \A c \in Conns : InUse(c) => sock'[c] = sock[c]
  BY LetGoCloses, Zenon DEF WaitEnds, Broadcast, BroadcastRuns, Leave, server
<1>2. \A c \in Conns : op[c] \notin {"read", "write"} => done'[c] = done[c]
  BY Zenon DEF WaitEnds, Broadcast, BroadcastRuns, Leave, TypeOK
<1>3. \A w \in Workers :
        pc'[w] = pc[w] \/ (pc[w] = "leave" /\ pc'[w] = "idle")
  BY Zenon DEF WaitEnds, Broadcast, BroadcastRuns, Leave, Goto, TypeOK, Threads
<1>4. \A c \in Conns : OpenConn(c)'
  BY <1>1, <1>2, Zenon DEF Unlocked, OpenConn, InUse
<1>5. \A w \in Workers : OpenHand(w)'
  <2> TAKE w \in Workers
  <2>1. pc[w] \notin {"idle", "leave"} => cur[w] \in Conns /\ InUse(cur[w])
    BY CurConn, Zenon DEF InUse
  <2> QED
    BY <1>1, <1>3, <2>1, Zenon DEF Unlocked, OpenHand
<1>6. Lock'
  BY <1>1, <1>3, Zenon DEF Unlocked, Lock
<1> QED
  BY <1>4, <1>5, <1>6, Zenon DEF Unlocked

\* The request handlers that finish_connection runs with the mutex locked never
\* come back to finish_connection: a pipelined request is served only on an
\* open connection, as long as payload handlers do not throw.
THEOREM FinishNeverRelocksHolds ==
  ASSUME OneCaller, ~PayloadThrows
  PROVE  Spec => []FinishNeverRelocks
<1>1. Init => Unlocked
  BY Zenon DEF Init, Unlocked, Lock, OpenConn, OpenHand, Threads
<1>2. IInv /\ Unlocked /\ [Next]_vars => Unlocked'
  <2> SUFFICES ASSUME IInv, Unlocked, [Next]_vars PROVE Unlocked'
    BY Zenon
  <2>1. ASSUME NEW c \in Conns, AcceptCompletes(c) \/ Completes(c)
        PROVE  Unlocked'
    <3>1. /\ UNCHANGED <<mutex, listening, lifecycle, op, pc, cur>>
          /\ \A d \in Conns : sock[d] => sock'[d]
          /\ \A d \in Conns \ {c} : done'[d] = done[d]
          /\ op[c] # "none"
          /\ op[c] = "accept" /\ done'[c] = "ok" => sock'[c] \/ AssignOnDispatch
      BY <2>1, Zenon DEF AcceptCompletes, Completes, server, IInv, TypeOK
    <3>2. \A w \in Workers : pc[w] \notin {"idle", "leave"} => cur[w] \in Conns
      BY CurConn, Zenon DEF IInv
    <3>3. \A d \in Conns : OpenConn(d)'
      BY <3>1, Zenon DEF Unlocked, OpenConn
    <3>4. \A w \in Workers : OpenHand(w)'
      BY <3>1, <3>2, Zenon DEF Unlocked, OpenHand
    <3> QED
      BY <3>1, <3>3, <3>4, Zenon DEF Unlocked, Lock
  <2>2. CASE UNCHANGED vars
    BY <2>2, Zenon DEF vars, Unlocked, Lock, OpenConn, OpenHand
  <2> QED
    BY <2>1, <2>2, CallerUnlocked, HandleUnlocked, AcceptListenUnlocked, FinishUnlocked,
       HoldersUnlocked, Zenon DEF Next, Continue
<1>3. Unlocked => FinishNeverRelocks
  BY ThreadsAssumption, Zenon DEF Unlocked, Lock, FinishNeverRelocks
<1> QED
  BY <1>1, <1>2, <1>3, InvariantHolds, PTL DEF Spec
=============================================================================
