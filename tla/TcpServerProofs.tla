---------------------------- MODULE TcpServerProofs ----------------------------
(***************************************************************************)
(* Proofs about TcpServer, for every number of callers, workers and        *)
(* connections, with and without SSL, for both ways asio assigns accepted  *)
(* sockets, and whether or not payload handlers throw.                     *)
(***************************************************************************)
EXTENDS TcpServer, FiniteSetTheorems, TLAPS

\* Unsigned arithmetic of active_users stays in range.
LEMMA Wraps ==
  ASSUME NEW n \in Int
  PROVE  n % UserModulus \in 0 .. (UserModulus - 1)
  BY OptionsAssumption

LEMMA CloseType ==
  ASSUME TypeOK, NEW C, Close(C)
  PROVE  sock' \in [Conns -> BOOLEAN]
  BY Zenon DEF Close, TypeOK

LEMMA ListenType ==
  ASSUME TypeOK, NEW f \in [Conns -> Operations], Listen(f)
  PROVE  /\ conn_pool' \in SUBSET Conns
         /\ sock' \in [Conns -> BOOLEAN]
         /\ lifecycle' \in [Conns -> Lifecycles]
         /\ op' \in [Conns -> Operations]
<1>1. CASE listening
  <2> PICK c \in Free :
        /\ conn_pool' = (conn_pool \ Orphans) \cup {c}
        /\ Close(Orphans)
        /\ lifecycle' = [lifecycle EXCEPT ![c] = "close"]
        /\ op' = [f EXCEPT ![c] = "accept"]
    BY <1>1, Zenon DEF Listen
  <2>1. sock' \in [Conns -> BOOLEAN]
    BY CloseType, Zenon
  <2>2. c \in Conns
    BY Zenon DEF Free
  <2> QED
    BY <2>1, <2>2, Zenon DEF TypeOK, Lifecycles, Operations
<1>2. CASE ~listening
  BY <1>2, Zenon DEF Listen, TypeOK
<1> QED
  BY <1>1, <1>2, Zenon

\* The types of what a worker changes when it passes on a connection.
WorkerTypes ==
  /\ op \in [Conns -> Operations]
  /\ holders \in [Conns -> SUBSET Holders]
  /\ cur \in [Workers -> Conns \cup {NoConn}]
  /\ pc \in [Threads -> CallerLabels \cup WorkerLabels]

LEMMA TakeType ==
  ASSUME TypeOK, NEW w \in Workers, NEW c \in Conns, NEW l \in WorkerLabels,
         Take(w, c, l)
  PROVE  WorkerTypes'
  BY Zenon DEF Take, Goto, TypeOK, Operations, Threads, WorkerTypes

LEMMA DepartType ==
  ASSUME TypeOK, NEW w \in Workers, NEW c \in Conns, NEW o, Depart(w, c, o)
  PROVE  /\ holders' \in [Conns -> SUBSET Holders]
         /\ cur' \in [Workers -> Conns \cup {NoConn}]
         /\ pc' \in [Threads -> CallerLabels \cup WorkerLabels]
<1>1. (IF o = "none" THEN {w} ELSE IF o = "read" THEN {"wait"} ELSE {})
        \in SUBSET Holders
  BY Zenon DEF Holders
<1>2. holders' \in [Conns -> SUBSET Holders]
  BY <1>1, Zenon DEF Depart, TypeOK
<1> QED
  BY <1>2, Zenon DEF Depart, Goto, TypeOK, Threads, WorkerLabels

LEMMA AwaitType ==
  ASSUME TypeOK, NEW w \in Workers, NEW c \in Conns, NEW o \in Operations,
         Await(w, c, o)
  PROVE  WorkerTypes'
  BY DepartType, Zenon DEF Await, TypeOK, WorkerTypes

LEMMA RespondType ==
  ASSUME TypeOK, NEW w \in Workers, NEW c \in Conns, Respond(w, c)
  PROVE  WorkerTypes'
<1>1. CASE \E o \in {"write", "none"} : Await(w, c, o)
  BY <1>1, AwaitType, Zenon DEF Operations
<1>2. CASE Take(w, c, "finish")
  BY <1>2, TakeType, Zenon DEF WorkerLabels
<1> QED
  BY <1>1, <1>2, Zenon DEF Respond, Drop

\* The types of what a worker's handler changes, with the request's lifecycle.
RequestTypes ==
  WorkerTypes /\ lifecycle \in [Conns -> Lifecycles] /\ registered \in SUBSET Conns

LEMMA UpgradeType ==
  ASSUME TypeOK, NEW w \in Workers, NEW c \in Conns, Upgrade(w, c)
  PROVE  RequestTypes'
<1>1. WorkerTypes'
  BY AwaitType, Zenon DEF Upgrade, Operations
<1> QED
  BY <1>1, Zenon DEF RequestTypes, Upgrade, SetLifecycle, Lifecycles, TypeOK

LEMMA ConsumeType ==
  ASSUME TypeOK, NEW w \in Workers, NEW c \in Conns, Consume(w, c)
  PROVE  RequestTypes'
<1>1. CASE Upgrade(w, c)
  BY <1>1, UpgradeType, Zenon
<1>2. CASE Await(w, c, "read") /\ UNCHANGED <<lifecycle, registered>>
  BY <1>2, AwaitType, Zenon DEF RequestTypes, Operations, TypeOK
<1>3. CASE (\E l \in Lifecycles : SetLifecycle(c, l) /\ Respond(w, c))
             /\ UNCHANGED registered
  BY <1>3, RespondType, Zenon DEF RequestTypes, SetLifecycle, TypeOK
<1>4. CASE SetLifecycle(c, "close") /\ Take(w, c, "finish")
             /\ UNCHANGED registered
  BY <1>4, TakeType, Zenon
     DEF RequestTypes, SetLifecycle, Lifecycles, TypeOK, WorkerLabels
<1> QED
  BY <1>1, <1>2, <1>3, <1>4, Zenon DEF Consume

LEMMA ReadErrorType ==
  ASSUME TypeOK, NEW w \in Workers, NEW c \in Conns, ReadError(w, c)
  PROVE  RequestTypes'
<1>1. CASE Upgrade(w, c)
  BY <1>1, UpgradeType, Zenon
<1>2. CASE ~Upgrade(w, c)
  <2>1. WorkerTypes'
    BY <1>2, RespondType, TakeType, Zenon DEF ReadError, WorkerLabels
  <2> QED
    BY <1>2, <2>1, Zenon DEF RequestTypes, ReadError, SetLifecycle, Lifecycles, TypeOK
<1> QED
  BY <1>1, <1>2, Zenon

\* The holders of a connection give it up.
LEMMA LetGoType ==
  ASSUME TypeOK, NEW c \in Conns, NEW H \in SUBSET Holders, LetGo(c, H)
  PROVE  /\ holders' \in [Conns -> SUBSET Holders]
         /\ sock' \in [Conns -> BOOLEAN] /\ registered' \in SUBSET Conns
  BY Zenon DEF LetGo, TypeOK

\* A worker between two steps has a connection in its hands.
Hands ==
  /\ \A t \in Callers : pc[t] \in CallerLabels
  /\ \A w \in Workers : /\ pc[w] \in WorkerLabels
                        /\ pc[w] \in {"idle", "leave"} <=> cur[w] = NoConn

LEMMA CurConn ==
  ASSUME TypeOK, Hands, NEW w \in Workers, pc[w] \notin {"idle", "leave"}
  PROVE  cur[w] \in Conns
  BY Zenon DEF TypeOK, Hands

LEMMA TypeStep == TypeOK /\ Hands /\ [Next]_vars => TypeOK'
<1> SUFFICES ASSUME TypeOK, Hands, [Next]_vars PROVE TypeOK'
  BY Zenon
<1> USE DEF TypeOK, Goto, server, refs
<1>1. ASSUME NEW t \in Callers, Start(t) PROVE TypeOK'
  <2>1. listening' \in BOOLEAN /\ acceptor' \in BOOLEAN
    BY <1>1, Zenon DEF Start
  <2>2. pc' \in [Threads -> CallerLabels \cup WorkerLabels]
    BY <1>1, Zenon DEF Start, CallerLabels, Threads
  <2> QED
    BY <1>1, <2>1, <2>2, Zenon DEF Start
<1>2. ASSUME NEW t \in Callers, StartListen(t) PROVE TypeOK'
  BY <1>2, ListenType, Zenon DEF StartListen, CallerLabels, Threads
<1>3. ASSUME NEW t \in Callers, StartAdd(t) PROVE TypeOK'
  <2>1. active_users' \in 0 .. (UserModulus - 1)
    BY <1>3, Wraps, OptionsAssumption DEF StartAdd
  <2>2. running' \in BOOLEAN
    BY <1>3, Zenon DEF StartAdd
  <2> QED
    BY <1>3, <2>1, <2>2, Zenon DEF StartAdd, CallerLabels, Threads
<1>4. ASSUME NEW t \in Callers, CallStop(t) PROVE TypeOK'
  BY <1>4, OptionsAssumption, Zenon DEF CallStop, CallerLabels, Threads
<1>5. ASSUME NEW t \in Callers, StopIgnored(t) PROVE TypeOK'
  BY <1>5, Zenon DEF StopIgnored, CallerLabels, Threads
<1>6. ASSUME NEW t \in Callers, Drain(t)
      PROVE  /\ conn_pool' \in SUBSET Conns
             /\ active_users' \in 0 .. (UserModulus - 1)
             /\ pc' \in [Threads -> CallerLabels \cup WorkerLabels]
             /\ wait' \in [Callers -> BOOLEAN]
  <2>1. active_users - 1 \in Int
    BY OptionsAssumption
  <2>2. active_users' \in 0 .. (UserModulus - 1)
    BY <1>6, <2>1, Wraps, Zenon DEF Drain
  <2> QED
    BY <1>6, <2>2, Zenon DEF Drain, CallerLabels, Threads
<1>7. ASSUME NEW t \in Callers, StopBegin(t) PROVE TypeOK'
  <2>1. sock' \in [Conns -> BOOLEAN]
    BY <1>7, CloseType, Zenon DEF StopBegin
  <2>2. listening' \in BOOLEAN /\ acceptor' \in BOOLEAN
    BY <1>7, Zenon DEF StopBegin
  <2>3. done' \in [Conns -> {"none", "ok", "err"}]
    BY <1>7, Zenon DEF StopBegin
  <2> QED
    BY <1>6, <1>7, <2>1, <2>2, <2>3, Zenon DEF StopBegin
<1>8. ASSUME NEW t \in Callers, StopWake(t) PROVE TypeOK'
  BY <1>6, <1>8, CloseType, Zenon DEF StopWake
<1>9. ASSUME NEW c \in Conns, AcceptCompletes(c) PROVE TypeOK'
  <2>1. sock' \in [Conns -> BOOLEAN]
    BY <1>9, Zenon DEF AcceptCompletes
  <2> QED
    BY <1>9, <2>1, Zenon DEF AcceptCompletes
<1>10. ASSUME NEW c \in Conns, Completes(c) PROVE TypeOK'
  BY <1>10, Zenon DEF Completes
<1>11. ASSUME NEW w \in Workers, NEW c \in Conns, HandleAccept(w, c)
       PROVE  TypeOK'
  <2>1. sock' \in [Conns -> BOOLEAN]
    BY <1>11, Zenon DEF HandleAccept
  <2>2. WorkerTypes'
    BY <1>11, TakeType, AwaitType, Zenon
       DEF HandleAccept, FirstOperation, WorkerLabels, Operations
  <2> QED
    BY <1>11, <2>1, <2>2, Zenon DEF HandleAccept, WorkerTypes
<1>12. ASSUME NEW w \in Workers, AcceptListen(w) PROVE TypeOK'
  <2>1. [op EXCEPT ![cur[w]] = FirstOperation] \in [Conns -> Operations]
    BY Zenon DEF FirstOperation, Operations
  <2>2. cur[w] \in Conns
    BY <1>12, CurConn, Zenon DEF AcceptListen
  <2>3. /\ holders' \in [Conns -> SUBSET Holders]
        /\ cur' \in [Workers -> Conns \cup {NoConn}]
        /\ pc' \in [Threads -> CallerLabels \cup WorkerLabels]
    BY <1>12, <2>2, DepartType, Zenon DEF AcceptListen, WorkerLabels, Threads
  <2> QED
    BY <1>12, <2>1, <2>3, ListenType, Zenon DEF AcceptListen
<1>13. ASSUME NEW w \in Workers, NEW c \in Conns, HandleSslHandshake(w, c)
       PROVE  TypeOK'
  <2>1. WorkerTypes'
    BY <1>13, TakeType, AwaitType, Zenon DEF HandleSslHandshake, WorkerLabels, Operations
  <2> QED
    BY <1>13, <2>1, Zenon DEF HandleSslHandshake, WorkerTypes
<1>14. ASSUME NEW w \in Workers, NEW c \in Conns, HandleRead(w, c)
       PROVE  TypeOK'
  <2>1. RequestTypes'
    BY <1>14, ConsumeType, ReadErrorType, Zenon DEF HandleRead
  <2> QED
    BY <1>14, <2>1, Zenon DEF HandleRead, RequestTypes, WorkerTypes
<1>15. ASSUME NEW w \in Workers, NEW c \in Conns, HandleWrite(w, c)
       PROVE  TypeOK'
  <2>1. WorkerTypes'
    BY <1>15, RespondType, TakeType, Zenon DEF HandleWrite, WorkerLabels
  <2>2. lifecycle' \in [Conns -> Lifecycles]
    BY <1>15, Zenon DEF HandleWrite, SetLifecycle, Lifecycles
  <2> QED
    BY <1>15, <2>1, <2>2, Zenon DEF HandleWrite, WorkerTypes
<1>16. ASSUME NEW w \in Workers, FinishKeepAlive(w) PROVE TypeOK'
  <2>1. cur[w] \in Conns
    BY <1>16, CurConn, Zenon DEF FinishKeepAlive
  <2>2. WorkerTypes'
    BY <1>16, <2>1, AwaitType, Zenon DEF FinishKeepAlive, Operations
  <2> QED
    BY <1>16, <2>1, <2>2, Zenon
       DEF FinishKeepAlive, SetLifecycle, Lifecycles, WorkerTypes
<1>17. ASSUME NEW w \in Workers, FinishPipelined(w) PROVE TypeOK'
  BY <1>17, CurConn, Zenon
     DEF FinishPipelined, SetLifecycle, WorkerLabels, Threads, Lifecycles
<1>18. ASSUME NEW w \in Workers, FinishClose(w) PROVE TypeOK'
  <2>1. cur[w] \in Conns
    BY <1>18, CurConn, Zenon DEF FinishClose
  <2>2. WorkerTypes'
    BY <1>18, <2>1, AwaitType, Zenon DEF FinishClose, Drop, Operations
  <2> QED
    BY <1>18, <2>2, Zenon DEF FinishClose, WorkerTypes
<1>19. ASSUME NEW w \in Workers, PipelinedRequest(w) PROVE TypeOK'
  <2>1. cur[w] \in Conns
    BY <1>19, CurConn, Zenon DEF PipelinedRequest
  <2>2. RequestTypes'
    BY <1>19, <2>1, ConsumeType, Zenon DEF PipelinedRequest
  <2> QED
    BY <1>19, <2>2, Zenon DEF PipelinedRequest, Threads, RequestTypes, WorkerTypes
<1>21. ASSUME NEW w \in Workers, Leave(w) PROVE TypeOK'
  <2> PICK c \in Conns : LetGo(c, holders[c] \ {w})
    BY <1>21, Zenon DEF Leave
  <2>1. holders[c] \ {w} \in SUBSET Holders
    BY Zenon
  <2> QED
    BY <1>21, <2>1, LetGoType, Zenon DEF Leave, WorkerLabels, Threads
<1>22. ASSUME NEW c \in Conns, WaitEnds(c) PROVE TypeOK'
  <2> PICK rest \in SUBSET {"wait"} : LetGo(c, (holders[c] \ {"wait"}) \cup rest)
    BY <1>22, Zenon DEF WaitEnds
  <2>1. (holders[c] \ {"wait"}) \cup rest \in SUBSET Holders
    BY Zenon DEF Holders
  <2> QED
    BY <1>22, <2>1, LetGoType, Zenon DEF WaitEnds
<1>23. ASSUME NEW c \in Conns, Broadcast(c) PROVE TypeOK'
  BY <1>23, Zenon DEF Broadcast, Holders
<1>24. ASSUME NEW c \in Conns, BroadcastRuns(c) PROVE TypeOK'
  <2>1. holders[c] \ {"broadcast"} \in SUBSET Holders
    BY Zenon
  <2> QED
    BY <1>24, <2>1, LetGoType, Zenon DEF BroadcastRuns
<1>20. CASE UNCHANGED vars
  BY <1>20, Zenon DEF vars
<1> QED
  BY <1>1, <1>2, <1>3, <1>4, <1>5, <1>7, <1>8, <1>9, <1>10, <1>11, <1>12,
     <1>13, <1>14, <1>15, <1>16, <1>17, <1>18, <1>19, <1>20, <1>21, <1>22,
     <1>23, <1>24, Zenon
     DEF Next, Caller, Handle, Continue

-----------------------------------------------------------------------------
(***************************************************************************)
(* The inductive invariant.  PoolCoversActive alone is not inductive: that *)
(* finish_connection may take a connection out of the pool depends on the  *)
(* connection being in one worker's hands only, with no operation pending; *)
(* and an open socket has a place in the pool or a holder.                 *)
(***************************************************************************)
Exclusive ==
  /\ \A w \in Workers : cur[w] # NoConn => op[cur[w]] = "none"
  /\ \A v, w \in Workers : cur[v] = cur[w] /\ cur[v] # NoConn => v = w

OpenHeld == \A c \in Conns : sock[c] => c \in conn_pool \/ holders[c] # {}

StoppedEmpty ==
  ~listening /\ (\A t \in Callers : pc[t] # "stop_wait") => conn_pool = {}

IInv == TypeOK /\ Hands /\ Exclusive /\ PoolCoversActive /\ OpenHeld
          /\ StoppedEmpty

LEMMA InitIInv == Init => IInv
<1> SUFFICES ASSUME Init PROVE IInv
  BY Zenon
<1>1. TypeOK
  <2>1. /\ listening \in BOOLEAN /\ acceptor \in BOOLEAN /\ running \in BOOLEAN
        /\ sock \in [Conns -> BOOLEAN]
        /\ wait \in [Callers -> BOOLEAN]
    BY Zenon DEF Init
  <2>2. active_users \in 0 .. (UserModulus - 1)
    BY OptionsAssumption DEF Init
  <2> QED
    BY <2>1, <2>2, Zenon DEF Init, TypeOK, Lifecycles, Operations, CallerLabels
<1>2. Hands
  BY Zenon DEF Init, Hands, Threads, CallerLabels, WorkerLabels
<1>3. Exclusive /\ PoolCoversActive /\ OpenHeld /\ StoppedEmpty
  BY ConnsAssumption, Zenon
     DEF Init, Exclusive, PoolCoversActive, InUse, OpenHeld, StoppedEmpty
<1> QED
  BY <1>1, <1>2, <1>3, Zenon DEF IInv

\* A worker that departs forgets no holder.
LEMMA DepartHolds ==
  ASSUME TypeOK, NEW w, NEW c, NEW o, Depart(w, c, o)
  PROVE  \A x \in Conns : holders[x] # {} => holders'[x] # {}
<1> DEFINE H == IF o = "none" THEN {w} ELSE IF o = "read" THEN {"wait"} ELSE {}
<1>1. holders' = [holders EXCEPT ![c] = @ \cup H]
  BY Zenon DEF Depart
<1> HIDE DEF H
<1> QED
  BY <1>1, Zenon DEF TypeOK

\* What a worker does to connection c: it keeps c in its hands, or leaves an
\* operation other than an accept pending on it.
Passes(w, c) ==
  \/ \E l \in {"listen_ok", "listen_err", "finish"} : Take(w, c, l)
  \/ \E o \in Operations \ {"accept"} : Await(w, c, o)

\* What gives it the right to: c is in its hands, or c's handler is queued.
Holds(w, c) == cur[w] = c \/ (cur[w] = NoConn /\ op[c] # "none")

LEMMA RespondPasses ==
  ASSUME NEW w, NEW c, Respond(w, c)
  PROVE  Passes(w, c)
  BY Zenon DEF Respond, Drop, Passes, Operations

LEMMA ConsumePasses ==
  ASSUME NEW w, NEW c, Consume(w, c)
  PROVE  Passes(w, c)
<1>1. CASE Await(w, c, "read") \/ Upgrade(w, c)
  BY <1>1, Zenon DEF Upgrade, Passes, Operations
<1>2. CASE Respond(w, c)
  BY <1>2, RespondPasses, Zenon
<1>3. CASE Take(w, c, "finish")
  BY <1>3, Zenon DEF Passes
<1> QED
  BY <1>1, <1>2, <1>3, Zenon DEF Consume

\* The handlers that run to their end or to a lock without touching the pool.
LEMMA HandlersPass ==
  ASSUME NEW w \in Workers, NEW c \in Conns,
         HandleAccept(w, c) \/ HandleSslHandshake(w, c)
           \/ HandleRead(w, c) \/ HandleWrite(w, c)
  PROVE  /\ Passes(w, c) /\ pc[w] = "idle" /\ op[c] # "none"
         /\ conn_pool' = conn_pool /\ listening' = listening
<1>1. CASE HandleAccept(w, c)
  BY <1>1, Zenon DEF HandleAccept, Ready, server, Passes, FirstOperation, Operations
<1>2. CASE HandleSslHandshake(w, c)
  BY <1>2, Zenon DEF HandleSslHandshake, Ready, server, Passes, Operations
<1>3. CASE HandleRead(w, c)
  <2>1. CASE Consume(w, c)
    BY <1>3, <2>1, ConsumePasses, Zenon DEF HandleRead, Ready, server
  <2>2. CASE ReadError(w, c)
    BY <1>3, <2>2, RespondPasses, Zenon
       DEF HandleRead, Ready, server, ReadError, Upgrade, Passes, Operations
  <2> QED
    BY <1>3, <2>1, <2>2, Zenon DEF HandleRead
<1>4. CASE HandleWrite(w, c)
  <2>1. CASE Respond(w, c)
    BY <1>4, <2>1, RespondPasses, Zenon DEF HandleWrite, Ready, server
  <2>2. CASE Take(w, c, "finish")
    BY <1>4, <2>2, Zenon DEF HandleWrite, Ready, server, Passes
  <2> QED
    BY <1>4, <2>1, <2>2, Zenon DEF HandleWrite
<1> QED
  BY <1>1, <1>2, <1>3, <1>4, Zenon

\* A connection stays in one pair of hands, no use of it is made up, and no
\* holder is forgotten.
LEMMA PassesKeeps ==
  ASSUME TypeOK, Hands, Exclusive, NEW w \in Workers, NEW c \in Conns,
         Passes(w, c), Holds(w, c)
  PROVE  /\ Hands' /\ Exclusive'
         /\ \A x \in Conns : InUse(x)' => InUse(x)
         /\ \A x \in Conns : holders[x] # {} => holders'[x] # {}
         /\ (\A t \in Callers : pc[t] # "stop_wait")
              <=> (\A t \in Callers : pc'[t] # "stop_wait")
<1> USE ThreadsAssumption, ConnsAssumption
<1>1. CASE \E l \in {"listen_ok", "listen_err", "finish"} : Take(w, c, l)
  <2> PICK l \in {"listen_ok", "listen_err", "finish"} : Take(w, c, l)
    BY <1>1, Zenon
  <2>1. Hands'
    BY Zenon DEF Take, Goto, Hands, TypeOK, Threads, WorkerLabels
  <2>2. Exclusive'
    BY Zenon DEF Take, Goto, Holds, Exclusive, TypeOK
  <2>3. \A x \in Conns : InUse(x)' => InUse(x)
    BY Zenon DEF Take, Goto, Holds, InUse, TypeOK
  <2> QED
    BY <2>1, <2>2, <2>3, Zenon DEF Take, Goto, TypeOK, Threads
<1>2. CASE \E o \in Operations \ {"accept"} : Await(w, c, o)
  <2> PICK o \in Operations \ {"accept"} : Await(w, c, o)
    BY <1>2, Zenon
  <2>1. Hands'
    BY Zenon DEF Await, Depart, Goto, Hands, TypeOK, Threads, WorkerLabels
  <2>2. Exclusive'
    BY Zenon DEF Await, Depart, Holds, Exclusive, TypeOK
  <2>3. \A x \in Conns : InUse(x)' => InUse(x)
    BY Zenon DEF Await, Depart, Holds, InUse, TypeOK
  <2>4. \A x \in Conns : holders[x] # {} => holders'[x] # {}
    BY DepartHolds, Zenon DEF Await
  <2> QED
    BY <2>1, <2>2, <2>3, <2>4, Zenon DEF Await, Depart, Goto, TypeOK, Threads
<1> QED
  BY <1>1, <1>2, Zenon DEF Passes

\* The locked section of listen(), for a thread that leaves its own connection
\* with an operation pending (opNow differs from op there only).
LEMMA ListenKeeps ==
  ASSUME IInv, NEW f \in [Conns -> Operations], Listen(f),
         \/ f = op /\ cur' = cur
         \/ \E w \in Workers :
              /\ cur[w] \in Conns /\ cur' = [cur EXCEPT ![w] = NoConn]
              /\ \E o \in Operations : f = [op EXCEPT ![cur[w]] = o],
         \A x \in Conns : holders[x] # {} => holders'[x] # {}
  PROVE  /\ Exclusive' /\ PoolCoversActive' /\ OpenHeld'
         /\ ~listening => conn_pool' = conn_pool
<1> USE DEF IInv
<1>1. /\ \A v \in Workers : cur'[v] # NoConn => cur'[v] = cur[v] /\ f[cur[v]] = "none"
      /\ \A x \in Conns : f[x] # "none" => InUse(x)
  BY DEF TypeOK, Exclusive, InUse
<1>2. CASE listening
  <2> PICK c \in Free :
        /\ conn_pool' = (conn_pool \ Orphans) \cup {c}
        /\ Close(Orphans)
        /\ lifecycle' = [lifecycle EXCEPT ![c] = "close"]
        /\ op' = [f EXCEPT ![c] = "accept"]
    BY <1>2, Zenon DEF Listen
  <2>1. c \in Conns /\ c \notin conn_pool /\ ~InUse(c) /\ holders[c] = {}
    BY Zenon DEF Free, Referenced
  <2>2. Exclusive'
    BY <1>1, <2>1 DEF Exclusive, InUse, TypeOK
  <2>3. \A x \in Conns : InUse(x)' => InUse(x) \/ x = c
    BY <1>1, <2>1, ConnsAssumption DEF InUse, TypeOK
  <2>4. PoolCoversActive'
    BY <2>1, <2>3, Zenon DEF PoolCoversActive, Orphans, Referenced
  <2>5. OpenHeld'
    BY <2>1, Zenon DEF OpenHeld, Close, Orphans, TypeOK
  <2> QED
    BY <1>2, <2>2, <2>4, <2>5, Zenon
<1>3. CASE ~listening
  <2>1. Exclusive'
    BY <1>1, <1>3, Zenon DEF Exclusive, Listen, TypeOK
  <2>2. \A x \in Conns : InUse(x)' => InUse(x)
    BY <1>1, <1>3, ConnsAssumption DEF InUse, Listen, TypeOK
  <2>3. PoolCoversActive'
    BY <1>3, <2>2, Zenon DEF PoolCoversActive, Listen
  <2> QED
    BY <1>3, <2>1, <2>3, Zenon DEF OpenHeld, Listen
<1> QED
  BY <1>2, <1>3, Zenon

\* One turn of the loop of stop(): only connections nobody uses leave the pool.
LEMMA DrainKeeps ==
  ASSUME IInv, NEW t \in Callers, Drain(t), UNCHANGED <<op, cur, holders>>,
         Close(Orphans) \/ Close(conn_pool)
  PROVE  Hands' /\ Exclusive' /\ PoolCoversActive' /\ OpenHeld' /\ StoppedEmpty'
<1> USE ThreadsAssumption DEF IInv
<1>1. Hands'
  BY Zenon DEF Drain, Goto, Hands, TypeOK, Threads, CallerLabels
<1>2. Exclusive'
  BY Zenon DEF Exclusive
<1>3. PoolCoversActive'
  BY Zenon DEF PoolCoversActive, Drain, Orphans, Referenced, InUse
<1>4. OpenHeld'
  BY Zenon DEF OpenHeld, Drain, Close, Orphans, TypeOK
<1>5. StoppedEmpty'
  BY Zenon DEF StoppedEmpty, Drain, Goto, TypeOK, Threads
<1> QED
  BY <1>1, <1>2, <1>3, <1>4, <1>5, Zenon

\* Steps of callers that leave connections alone.
LEMMA CallerQuiet ==
  ASSUME IInv, NEW t \in Callers, NEW l \in CallerLabels \ {"stop_wait"},
         Goto(t, l), pc[t] # "stop_wait",
         UNCHANGED <<conn_pool, sock, op, cur, holders>>,
         listening' = listening \/ listening' = TRUE
  PROVE  Hands' /\ Exclusive' /\ PoolCoversActive' /\ OpenHeld' /\ StoppedEmpty'
<1> USE ThreadsAssumption DEF IInv
<1>1. Hands'
  BY Zenon DEF Goto, Hands, TypeOK, Threads
<1>2. Exclusive' /\ PoolCoversActive' /\ OpenHeld'
  BY Zenon DEF Exclusive, PoolCoversActive, OpenHeld, InUse
<1>3. StoppedEmpty'
  BY Zenon DEF StoppedEmpty, Goto, TypeOK, Threads
<1> QED
  BY <1>1, <1>2, <1>3, Zenon

LEMMA CallersKeepIInv ==
  ASSUME IInv, NEW t \in Callers, Start(t) \/ CallStop(t) \/ Caller(t)
  PROVE  Hands' /\ Exclusive' /\ PoolCoversActive' /\ OpenHeld' /\ StoppedEmpty'
<1> USE DEF CallerLabels
<1>1. CASE Start(t)
  <2> PICK bound \in BOOLEAN :
        /\ listening' = bound
        /\ Goto(t, IF bound THEN "start_listen" ELSE "idle")
    BY <1>1, Zenon DEF Start
  <2>1. CASE bound
    BY <1>1, <2>1, CallerQuiet, Zenon DEF Start, refs
  <2>2. CASE ~bound
    <3>1. listening' = listening
      BY <1>1, <2>2, Zenon DEF Start, IInv, TypeOK
    <3> QED
      BY <1>1, <2>2, <3>1, CallerQuiet, Zenon DEF Start, refs
  <2> QED
    BY <2>1, <2>2, Zenon
<1>2. CASE CallStop(t)
  BY <1>2, CallerQuiet, Zenon DEF CallStop, server, refs
<1>3. CASE StartListen(t)
  <2> USE <1>3 DEF StartListen, server, refs
  <2>1. Hands'
    BY ThreadsAssumption, Zenon DEF IInv, Goto, Hands, TypeOK, Threads
  <2>2. Exclusive' /\ PoolCoversActive' /\ OpenHeld'
        /\ (~listening => conn_pool' = conn_pool)
    BY ListenKeeps, Zenon DEF IInv, TypeOK
  <2> QED
    BY <2>1, <2>2, Zenon DEF IInv, StoppedEmpty, Goto, TypeOK, Threads
<1>4. CASE StartAdd(t)
  BY <1>4, CallerQuiet, Zenon DEF StartAdd, refs
<1>5. CASE StopIgnored(t)
  BY <1>5, CallerQuiet, Zenon DEF StopIgnored, server, refs
<1>6. CASE StopBegin(t)
  BY <1>6, DrainKeeps, Zenon DEF StopBegin, refs
<1>7. CASE StopWake(t)
  BY <1>7, DrainKeeps, Zenon DEF StopWake, refs
<1> QED
  BY <1>1, <1>2, <1>3, <1>4, <1>5, <1>6, <1>7, Zenon DEF Caller

\* A worker that passes on a connection without touching the pool; a socket
\* that it opens belongs to a connection it holds.
LEMMA WorkerQuiet ==
  ASSUME IInv, NEW w \in Workers, NEW c \in Conns, Passes(w, c), Holds(w, c),
         UNCHANGED <<conn_pool, listening>>,
         \A x \in Conns \ {c} : sock'[x] => sock[x]
  PROVE  Hands' /\ Exclusive' /\ PoolCoversActive' /\ OpenHeld' /\ StoppedEmpty'
<1>1. /\ Hands' /\ Exclusive'
      /\ \A x \in Conns : InUse(x)' => InUse(x)
      /\ \A x \in Conns : holders[x] # {} => holders'[x] # {}
      /\ (\A t \in Callers : pc[t] # "stop_wait")
           <=> (\A t \in Callers : pc'[t] # "stop_wait")
  BY PassesKeeps, Zenon DEF IInv
<1>2. PoolCoversActive'
  BY <1>1, Zenon DEF IInv, PoolCoversActive
<1>3. OpenHeld'
  <2>1. c \in conn_pool
    BY ConnsAssumption, Zenon DEF IInv, PoolCoversActive, Holds, InUse
  <2> QED
    BY <1>1, <2>1, Zenon DEF IInv, OpenHeld
<1>4. StoppedEmpty'
  BY <1>1, Zenon DEF IInv, StoppedEmpty
<1> QED
  BY <1>1, <1>2, <1>3, <1>4, Zenon

LEMMA HandleKeepsIInv ==
  ASSUME IInv, NEW w \in Workers, NEW c \in Conns, Handle(w, c)
  PROVE  Hands' /\ Exclusive' /\ PoolCoversActive' /\ OpenHeld' /\ StoppedEmpty'
<1>1. /\ Passes(w, c) /\ pc[w] = "idle" /\ op[c] # "none"
      /\ conn_pool' = conn_pool /\ listening' = listening
  BY HandlersPass, Zenon DEF Handle
<1>2. Holds(w, c)
  BY <1>1, Zenon DEF IInv, Hands, Holds
<1>3. \A x \in Conns \ {c} : sock'[x] => sock[x]
  BY Zenon DEF IInv, TypeOK, Handle, HandleAccept, HandleSslHandshake, HandleRead,
         HandleWrite
<1> QED
  BY <1>1, <1>2, <1>3, WorkerQuiet, Zenon

\* A holder gives up its connection: only what nobody can reach is destroyed.
LEMMA LetGoKeeps ==
  ASSUME IInv, NEW c \in Conns, NEW H, LetGo(c, H),
         UNCHANGED <<conn_pool, op, cur>>
  PROVE  Exclusive' /\ PoolCoversActive' /\ OpenHeld'
<1> USE DEF IInv
<1>1. Exclusive' /\ PoolCoversActive'
  BY Zenon DEF Exclusive, PoolCoversActive, InUse
<1>2. /\ holders' = [holders EXCEPT ![c] = H]
      /\ sock' = [sock EXCEPT ![c] = @ /\ (c \in conn_pool \/ InUse(c) \/ H # {})]
  BY Zenon DEF LetGo
<1>3. sock'[c] => c \in conn_pool \/ holders'[c] # {}
  BY <1>2, Zenon DEF PoolCoversActive, TypeOK
<1>4. \A x \in Conns \ {c} : sock'[x] = sock[x] /\ holders'[x] = holders[x]
  BY <1>2, Zenon DEF TypeOK
<1>5. OpenHeld'
  BY <1>3, <1>4, Zenon DEF OpenHeld
<1> QED
  BY <1>1, <1>5, Zenon

LEMMA LeaveKeepsIInv ==
  ASSUME IInv, NEW w \in Workers, Leave(w)
  PROVE  Hands' /\ Exclusive' /\ PoolCoversActive' /\ OpenHeld' /\ StoppedEmpty'
<1> USE DEF IInv, Leave
<1>1. Exclusive' /\ PoolCoversActive' /\ OpenHeld'
  BY LetGoKeeps, Zenon
<1>2. Hands'
  BY ThreadsAssumption, Zenon DEF Goto, Hands, TypeOK, Threads, WorkerLabels
<1>3. StoppedEmpty'
  BY ThreadsAssumption, Zenon DEF StoppedEmpty, Goto, TypeOK, Threads, server
<1> QED
  BY <1>1, <1>2, <1>3, Zenon

\* Timers and broadcasts.
LEMMA HoldersKeepIInv ==
  ASSUME IInv, NEW c \in Conns, WaitEnds(c) \/ Broadcast(c) \/ BroadcastRuns(c)
  PROVE  Hands' /\ Exclusive' /\ PoolCoversActive' /\ OpenHeld' /\ StoppedEmpty'
<1> USE DEF IInv
<1>1. UNCHANGED <<conn_pool, listening, op, cur, pc>>
  BY Zenon DEF WaitEnds, Broadcast, BroadcastRuns, server
<1>2. Hands' /\ StoppedEmpty'
  BY <1>1, Zenon DEF Hands, StoppedEmpty
<1>3. CASE WaitEnds(c) \/ BroadcastRuns(c)
  BY <1>1, <1>2, <1>3, LetGoKeeps, Zenon DEF WaitEnds, BroadcastRuns
<1>4. CASE Broadcast(c)
  <2>1. Exclusive' /\ PoolCoversActive'
    BY <1>1, Zenon DEF Exclusive, PoolCoversActive, InUse
  <2>2. /\ holders' = [holders EXCEPT ![c] = @ \cup {"broadcast"}]
        /\ sock' = sock
    BY <1>4, Zenon DEF Broadcast
  <2>3. \A x \in Conns : holders[x] # {} => holders'[x] # {}
    BY <2>2, Zenon DEF TypeOK
  <2> QED
    BY <1>1, <1>2, <2>1, <2>2, <2>3, Zenon DEF OpenHeld
<1> QED
  BY <1>3, <1>4, Zenon

LEMMA ContinueKeepsIInv ==
  ASSUME IInv, NEW w \in Workers, Continue(w)
  PROVE  Hands' /\ Exclusive' /\ PoolCoversActive' /\ OpenHeld' /\ StoppedEmpty'
<1> SUFFICES ASSUME ~Leave(w)
             PROVE  Hands' /\ Exclusive' /\ PoolCoversActive' /\ OpenHeld'
                      /\ StoppedEmpty'
  BY LeaveKeepsIInv, Zenon
<1>1. cur[w] \in Conns
  BY CurConn, Zenon DEF IInv, Continue, AcceptListen, FinishKeepAlive, FinishPipelined,
                 FinishClose, PipelinedRequest
<1>2. Holds(w, cur[w])
  BY Zenon DEF Holds
<1>3. CASE AcceptListen(w)
  <2>1. /\ Exclusive' /\ PoolCoversActive' /\ OpenHeld'
        /\ ~listening => conn_pool' = conn_pool
    <3>1. CASE pc[w] = "listen_ok"
      <4>1. /\ FirstOperation \in Operations
            /\ [op EXCEPT ![cur[w]] = FirstOperation] \in [Conns -> Operations]
        BY Zenon DEF IInv, TypeOK, FirstOperation, Operations
      <4> QED
        BY <1>1, <1>3, <3>1, <4>1, ListenKeeps, DepartHolds, Zenon
           DEF AcceptListen, Depart, IInv
    <3>2. CASE pc[w] = "listen_err"
      BY <1>3, <3>2, ListenKeeps, Zenon DEF AcceptListen, IInv, TypeOK
    <3> QED
      BY <1>3, <3>1, <3>2, Zenon DEF AcceptListen
  <2>2. Hands'
    BY <1>1, <1>3, ThreadsAssumption, ConnsAssumption, Zenon
       DEF AcceptListen, Depart, FirstOperation, Goto, IInv, Hands, TypeOK, Threads,
           WorkerLabels
  <2>3. StoppedEmpty'
    BY <1>3, <2>1, ThreadsAssumption, Zenon
       DEF AcceptListen, Depart, Goto, IInv, StoppedEmpty, TypeOK, Threads, server
  <2> QED
    BY <2>1, <2>2, <2>3, Zenon
<1>4. CASE FinishKeepAlive(w)
  BY <1>1, <1>2, <1>4, WorkerQuiet, Zenon DEF FinishKeepAlive, Passes, Operations, server
<1>5. CASE FinishPipelined(w)
  <2> USE <1>5 DEF FinishPipelined, server, refs, IInv
  <2>1. Hands'
    BY <1>1, ThreadsAssumption, ConnsAssumption, Zenon
       DEF Goto, Hands, TypeOK, Threads, WorkerLabels
  <2>2. Exclusive' /\ PoolCoversActive' /\ OpenHeld'
    BY Zenon DEF Exclusive, PoolCoversActive, OpenHeld, InUse
  <2> QED
    BY <2>1, <2>2, ThreadsAssumption, Zenon DEF StoppedEmpty, Goto, TypeOK, Threads
<1>6. CASE FinishClose(w)
  <2> USE <1>6 DEF FinishClose, server, IInv
  <2>1. Passes(w, cur[w])
    BY Zenon DEF Drop, Passes, Operations
  <2>2. /\ Hands' /\ Exclusive'
        /\ \A x \in Conns : InUse(x)' => InUse(x)
        /\ \A x \in Conns : holders[x] # {} => holders'[x] # {}
        /\ (\A t \in Callers : pc[t] # "stop_wait")
             <=> (\A t \in Callers : pc'[t] # "stop_wait")
    BY <1>1, <1>2, <2>1, PassesKeeps, Zenon
  <2>3. \A x \in Conns : InUse(x)' => x # cur[w]
    BY <1>1, ConnsAssumption, Zenon DEF InUse, Drop, Await, Depart, Exclusive, TypeOK
  <2>4. PoolCoversActive'
    BY <2>2, <2>3, Zenon DEF PoolCoversActive
  <2>5. OpenHeld'
    <3>1. holders'[cur[w]] # {}
      BY <1>1, Zenon DEF Drop, Await, Depart, TypeOK
    <3> QED
      BY <2>2, <3>1, Zenon DEF OpenHeld
  <2>6. StoppedEmpty'
    BY <2>2, Zenon DEF StoppedEmpty
  <2> QED
    BY <2>2, <2>4, <2>5, <2>6, Zenon
<1>7. CASE PipelinedRequest(w)
  BY <1>1, <1>2, <1>7, WorkerQuiet, ConsumePasses, Zenon DEF PipelinedRequest, server
<1> QED
  BY <1>3, <1>4, <1>5, <1>6, <1>7, Zenon DEF Continue

LEMMA StepIInv == IInv /\ [Next]_vars => IInv'
<1> SUFFICES ASSUME IInv, [Next]_vars PROVE IInv'
  BY Zenon
<1>1. TypeOK'
  BY TypeStep, Zenon DEF IInv
<1>2. Hands' /\ Exclusive' /\ PoolCoversActive' /\ OpenHeld' /\ StoppedEmpty'
  <2>1. CASE \E t \in Callers : Start(t) \/ CallStop(t) \/ Caller(t)
    BY <2>1, CallersKeepIInv, Zenon
  <2>2. ASSUME NEW c \in Conns, AcceptCompletes(c) \/ Completes(c)
        PROVE  Hands' /\ Exclusive' /\ PoolCoversActive' /\ OpenHeld'
                 /\ StoppedEmpty'
    <3> USE DEF IInv
    <3>0. UNCHANGED <<conn_pool, listening, op, cur, pc, holders>>
      BY <2>2, Zenon DEF AcceptCompletes, Completes, server, refs
    <3>1. Hands' /\ Exclusive' /\ PoolCoversActive' /\ StoppedEmpty'
      BY <3>0, Zenon DEF Hands, Exclusive, PoolCoversActive, InUse, StoppedEmpty
    <3>2. OpenHeld'
      <4>1. c \in conn_pool
        BY <2>2, Zenon DEF PoolCoversActive, InUse, AcceptCompletes, Completes
      <4>2. \A x \in Conns \ {c} : sock'[x] = sock[x]
        BY <2>2, Zenon DEF AcceptCompletes, Completes, TypeOK
      <4> QED
        BY <3>0, <4>1, <4>2, Zenon DEF OpenHeld
    <3> QED
      BY <3>1, <3>2, Zenon
  <2>3. CASE \E w \in Workers, c \in Conns : Handle(w, c)
    BY <2>3, HandleKeepsIInv, Zenon
  <2>4. CASE \E w \in Workers : Continue(w)
    BY <2>4, ContinueKeepsIInv, Zenon
  <2>5. CASE UNCHANGED vars
    BY <2>5, Zenon DEF vars, IInv, Hands, Exclusive, PoolCoversActive, InUse,
                OpenHeld, StoppedEmpty
  <2>6. CASE \E c \in Conns : WaitEnds(c) \/ Broadcast(c) \/ BroadcastRuns(c)
    BY <2>6, HoldersKeepIInv, Zenon
  <2> QED
    BY <2>1, <2>2, <2>3, <2>4, <2>5, <2>6, Zenon DEF Next
<1> QED
  BY <1>1, <1>2, Zenon DEF IInv

LEMMA InvariantHolds == Spec => []IInv
  BY InitIInv, StepIInv, PTL DEF Spec

-----------------------------------------------------------------------------
(* The theorems.                                                           *)

\* Every variable keeps its type, and active_users its width.
THEOREM TypeCorrect == Spec => []TypeOK
<1>1. IInv => TypeOK
  BY Zenon DEF IInv
<1> QED
  BY <1>1, InvariantHolds, PTL

\* stop() never misses a connection in use: one with an operation of a request
\* or a response pending, or in the hands of a worker that goes on with it, is
\* in conn_pool, for any number of threads and connections.  Only holders
\* (returning handlers, waits of timers, broadcasts) outlive its place there.
THEOREM PoolCoversActiveHolds == Spec => []PoolCoversActive
<1>1. IInv => PoolCoversActive
  BY Zenon DEF IInv
<1> QED
  BY <1>1, InvariantHolds, PTL

\* Once stop() has returned no operation of the server is pending and no worker
\* goes on with a connection, however many callers and workers race; a socket is
\* still open only for the holders that stop() does not wait for.
THEOREM StoppedIsQuietHolds == Spec => []StoppedIsQuiet
<1>1. IInv => StoppedIsQuiet
  BY Zenon DEF IInv, StoppedIsQuiet, StoppedEmpty, PoolCoversActive, OpenHeld, InUse
<1> QED
  BY <1>1, InvariantHolds, PTL

-----------------------------------------------------------------------------
(* A listening server is never deaf.                                       *)

\* Passing on a connection that is not waiting for a client, by a worker that
\* is not on its way to listen(), leaves the chain of accepts alone.
LEMMA PassesKeepsChain ==
  ASSUME TypeOK, ListeningHasAccept, NEW w \in Workers, NEW c \in Conns,
         Passes(w, c), op[c] # "accept", pc[w] \notin ListenLabels,
         listening' = listening
  PROVE  ListeningHasAccept'
<1>1. /\ \A x \in Conns : op[x] = "accept" => op'[x] = "accept"
      /\ \A t \in Threads : pc[t] \in ListenLabels => pc'[t] \in ListenLabels
  BY Zenon DEF Passes, Take, Await, Depart, Goto, TypeOK, Threads
<1> QED
  BY <1>1, Zenon DEF ListeningHasAccept

\* listen() of a server that listens leaves an accept pending.
LEMMA ListenAccepts ==
  ASSUME TypeOK, NEW f \in [Conns -> Operations], Listen(f), listening
  PROVE  \E c \in Conns : op'[c] = "accept"
  BY Zenon DEF Listen, Free

LEMMA StepHasAccept ==
  IInv /\ ListeningHasAccept /\ [Next]_vars => ListeningHasAccept'
<1> SUFFICES ASSUME IInv, ListeningHasAccept, [Next]_vars
             PROVE  ListeningHasAccept'
  BY Zenon
<1> USE DEF IInv
<1>1. ASSUME NEW t \in Callers, Start(t) \/ CallStop(t) \/ Caller(t)
      PROVE  ListeningHasAccept'
  <2>1. CASE Start(t)
    BY <2>1 DEF Start, Goto, ListeningHasAccept, ListenLabels, TypeOK, Threads
  <2>2. CASE StartListen(t)
    <3>1. listening => \E c \in Conns : op'[c] = "accept"
      BY <2>2, ListenAccepts, Zenon DEF StartListen, TypeOK
    <3> QED
      BY <2>2, <3>1, Zenon DEF StartListen, ListeningHasAccept, server
  <2>3. CASE CallStop(t) \/ StartAdd(t) \/ StopIgnored(t) \/ StopWake(t)
    <3>1. /\ op' = op /\ listening' = listening
          /\ \A u \in Threads : pc[u] \in ListenLabels => pc'[u] = pc[u]
      BY <2>3, Zenon DEF CallStop, StartAdd, StopIgnored, StopWake, Drain, Goto, server,
                  ListenLabels, TypeOK
    <3> QED
      BY <3>1, Zenon DEF ListeningHasAccept
  <2>4. CASE StopBegin(t)
    BY <2>4, Zenon DEF StopBegin, ListeningHasAccept
  <2> QED
    BY <1>1, <2>1, <2>2, <2>3, <2>4, Zenon DEF Caller
<1>2. ASSUME NEW c \in Conns,
             \/ AcceptCompletes(c) \/ Completes(c)
             \/ WaitEnds(c) \/ Broadcast(c) \/ BroadcastRuns(c)
      PROVE  ListeningHasAccept'
  <2>1. op' = op /\ pc' = pc /\ listening' = listening
    BY <1>2, Zenon
       DEF AcceptCompletes, Completes, WaitEnds, Broadcast, BroadcastRuns, server
  <2> QED
    BY <2>1, Zenon DEF ListeningHasAccept
<1>3. ASSUME NEW w \in Workers, NEW c \in Conns, Handle(w, c)
      PROVE  ListeningHasAccept'
  <2>1. CASE HandleAccept(w, c)
    BY <2>1, Zenon DEF HandleAccept, Take, Goto, ListeningHasAccept, ListenLabels,
                server, TypeOK, Threads
  <2>2. CASE HandleSslHandshake(w, c) \/ HandleRead(w, c) \/ HandleWrite(w, c)
    <3>1. /\ Passes(w, c) /\ pc[w] = "idle"
          /\ listening' = listening
      BY <2>2, HandlersPass, Zenon
    <3>2. op[c] # "accept"
      BY <2>2, Zenon DEF HandleSslHandshake, HandleRead, HandleWrite, Ready
    <3> QED
      BY <3>1, <3>2, PassesKeepsChain, Zenon DEF ListenLabels
  <2> QED
    BY <1>3, <2>1, <2>2, Zenon DEF Handle
<1>4. ASSUME NEW w \in Workers, Continue(w)
      PROVE  ListeningHasAccept'
  <2>7. CASE Leave(w)
    BY <2>7, Zenon DEF Leave, Goto, ListeningHasAccept, ListenLabels, server, TypeOK
  <2> SUFFICES ASSUME ~Leave(w) PROVE ListeningHasAccept'
    BY <2>7, Zenon
  <2>1. cur[w] \in Conns /\ op[cur[w]] = "none"
    BY <1>4, CurConn, ConnsAssumption, Zenon
       DEF Continue, AcceptListen, FinishKeepAlive, FinishPipelined,
           FinishClose, PipelinedRequest, Exclusive
  <2>2. CASE AcceptListen(w)
    <3>1. [op EXCEPT ![cur[w]] = FirstOperation] \in [Conns -> Operations]
      BY Zenon DEF TypeOK, FirstOperation, Operations
    <3>2. listening => \E c \in Conns : op'[c] = "accept"
      BY <2>2, <3>1, ListenAccepts, Zenon DEF AcceptListen, TypeOK
    <3> QED
      BY <2>2, <3>2, Zenon DEF AcceptListen, ListeningHasAccept, server
  <2>3. CASE FinishKeepAlive(w)
    BY <2>1, <2>3, PassesKeepsChain, Zenon
       DEF FinishKeepAlive, Passes, Operations, ListenLabels, server
  <2>4. CASE FinishPipelined(w)
    BY <2>4, Zenon DEF FinishPipelined, Goto, ListeningHasAccept, ListenLabels, server,
                TypeOK
  <2>5. CASE FinishClose(w)
    BY <2>1, <2>5, PassesKeepsChain, Zenon
       DEF FinishClose, Drop, Passes, Operations, ListenLabels, server
  <2>6. CASE PipelinedRequest(w)
    BY <2>1, <2>6, PassesKeepsChain, ConsumePasses, Zenon
       DEF PipelinedRequest, ListenLabels, server
  <2> QED
    BY <1>4, <2>2, <2>3, <2>4, <2>5, <2>6, Zenon DEF Continue
<1>5. CASE UNCHANGED vars
  BY <1>5, Zenon DEF vars, ListeningHasAccept
<1> QED
  BY <1>1, <1>2, <1>3, <1>4, <1>5, Zenon DEF Next

\* A server that listens has an accept pending, or a thread about to start one:
\* accept errors, stops and restarts never leave it deaf.
THEOREM ListeningHasAcceptHolds == Spec => []ListeningHasAccept
<1>1. Init => ListeningHasAccept
  BY Zenon DEF Init, ListeningHasAccept
<1> QED
  BY <1>1, InvariantHolds, StepHasAccept, PTL DEF Spec

-----------------------------------------------------------------------------
(* The server implements ServerContract.                                   *)

\* A step that keeps listening, and who waits in stop(), keeps the phase.
LEMMA SamePhase ==
  ASSUME TypeOK, listening' = listening,
         NEW t \in Threads, NEW l, Goto(t, l),
         t \in Callers => pc[t] # "stop_wait" /\ l # "stop_wait"
  PROVE  Phase' = Phase
<1>1. \A u \in Callers : pc'[u] = "stop_wait" <=> pc[u] = "stop_wait"
  BY ThreadsAssumption, Zenon DEF Goto, TypeOK, Threads
<1> QED
  BY <1>1, Zenon DEF Phase

\* Connections leave the pool, in whatever phase.
LEMMA LeaveOrStutter ==
  ASSUME Phase' = Phase, conn_pool' \subseteq conn_pool
  PROVE  [Contract!Next]_(Contract!contract)
  BY Zenon DEF Contract!Next, Contract!Leave, Contract!contract

\* listen() admits a connection, or does nothing.
LEMMA ListenAdmits ==
  ASSUME Phase' = Phase, NEW f, Listen(f)
  PROVE  [Contract!Next]_(Contract!contract)
<1>1. CASE listening
  <2> PICK c \in Free : conn_pool' = (conn_pool \ Orphans) \cup {c}
    BY <1>1, Zenon DEF Listen
  <2>1. c \in Conns /\ Orphans \in SUBSET conn_pool
    BY Zenon DEF Free, Orphans
  <2>2. Phase = "listening"
    BY <1>1, Zenon DEF Phase
  <2> QED
    BY <2>1, <2>2, Zenon DEF Contract!Next, Contract!Admit
<1>2. CASE ~listening
  BY <1>2, LeaveOrStutter, Zenon DEF Listen
<1> QED
  BY <1>1, <1>2, Zenon

\* stop() turns the pool over: the phase ends only with an empty pool.
LEMMA StopStep ==
  ASSUME TypeOK, NEW t \in Callers, Drain(t),
         StopBegin(t) \/ StopWake(t)
  PROVE  [Contract!Next]_(Contract!contract)
<1>1. conn_pool' \subseteq conn_pool
  BY Zenon DEF Drain
<1>2. /\ conn_pool' # {} => pc'[t] = "stop_wait"
      /\ \A u \in Callers \ {t} : pc'[u] = pc[u]
  BY Zenon DEF Drain, Goto, TypeOK, Threads
<1>3. CASE StopBegin(t)
  <2>1. Phase = "listening"
    BY <1>3, Zenon DEF StopBegin, Phase
  <2>2. Phase' \in {"stopping", "stopped"} /\ (Phase' = "stopped" => conn_pool' = {})
    BY <1>2, <1>3, Zenon DEF StopBegin, Phase
  <2> QED
    BY <1>1, <2>1, <2>2, Zenon DEF Contract!Next, Contract!BeginStop
<1>4. CASE StopWake(t)
  <2>1. CASE Phase' = Phase
    BY <1>1, <2>1, LeaveOrStutter, Zenon
  <2>2. CASE Phase' # Phase
    <3>1. Phase = "stopping" /\ Phase' = "stopped" /\ conn_pool' = {}
      BY <1>2, <1>4, <2>2, Zenon DEF StopWake, Phase
    <3> QED
      BY <1>1, <3>1, Zenon DEF Contract!Next, Contract!EndStop
  <2> QED
    BY <2>1, <2>2, Zenon
<1> QED
  BY <1>3, <1>4, Zenon

LEMMA StepContract == IInv /\ [Next]_vars => [Contract!Next]_(Contract!contract)
<1> SUFFICES ASSUME IInv, [Next]_vars
             PROVE  [Contract!Next]_(Contract!contract)
  BY Zenon
<1> USE DEF IInv
<1>1. ASSUME NEW t \in Callers, Start(t)
      PROVE  [Contract!Next]_(Contract!contract)
  <2> PICK bound \in BOOLEAN :
        /\ listening' = bound
        /\ Goto(t, IF bound THEN "start_listen" ELSE "idle")
    BY <1>1, Zenon DEF Start
  <2>1. CASE bound
    <3>1. Phase # "listening" /\ Phase' = "listening" /\ conn_pool' = conn_pool
      BY <1>1, <2>1, Zenon DEF Start, Phase
    <3> QED
      BY <3>1, Zenon DEF Contract!Next, Contract!Start
  <2>2. CASE ~bound
    <3>1. listening' = listening
      BY <1>1, <2>2, Zenon DEF Start, TypeOK
    <3>2. Goto(t, "idle")
      BY <2>2, Zenon
    <3>3. Phase' = Phase
      BY <1>1, <3>1, <3>2, SamePhase, Zenon DEF Start, Threads
    <3> QED
      BY <1>1, <3>3, LeaveOrStutter, Zenon DEF Start
  <2> QED
    BY <2>1, <2>2, Zenon
<1>2. ASSUME NEW t \in Callers, StartListen(t)
      PROVE  [Contract!Next]_(Contract!contract)
  BY <1>2, SamePhase, ListenAdmits, Zenon DEF StartListen, server, Threads
<1>3. ASSUME NEW t \in Callers, CallStop(t) \/ StartAdd(t) \/ StopIgnored(t)
      PROVE  [Contract!Next]_(Contract!contract)
  BY <1>3, SamePhase, LeaveOrStutter, Zenon
     DEF CallStop, StartAdd, StopIgnored, server, Threads
<1>4. ASSUME NEW t \in Callers, StopBegin(t) \/ StopWake(t)
      PROVE  [Contract!Next]_(Contract!contract)
  BY <1>4, StopStep, Zenon DEF StopBegin, StopWake
<1>5. ASSUME NEW c \in Conns,
             \/ AcceptCompletes(c) \/ Completes(c)
             \/ WaitEnds(c) \/ Broadcast(c) \/ BroadcastRuns(c)
      PROVE  [Contract!Next]_(Contract!contract)
  <2>1. pc' = pc /\ listening' = listening /\ conn_pool' = conn_pool
    BY <1>5, Zenon
       DEF AcceptCompletes, Completes, WaitEnds, Broadcast, BroadcastRuns, server
  <2>2. Phase' = Phase
    BY <2>1, Zenon DEF Phase
  <2> QED
    BY <2>1, <2>2, LeaveOrStutter, Zenon
<1>6. ASSUME NEW w \in Workers, NEW c \in Conns, Passes(w, c),
             listening' = listening, conn_pool' \subseteq conn_pool
      PROVE  [Contract!Next]_(Contract!contract)
  <2>1. \E l : Goto(w, l)
    BY <1>6, Zenon DEF Passes, Take, Await, Depart
  <2>2. Phase' = Phase
    BY <1>6, <2>1, SamePhase, ThreadsAssumption, Zenon DEF Threads
  <2> QED
    BY <1>6, <2>2, LeaveOrStutter, Zenon
<1>7. ASSUME NEW w \in Workers, NEW c \in Conns, Handle(w, c)
      PROVE  [Contract!Next]_(Contract!contract)
  BY <1>6, <1>7, HandlersPass, Zenon DEF Handle
<1>8. ASSUME NEW w \in Workers, AcceptListen(w) \/ FinishPipelined(w) \/ Leave(w)
      PROVE  [Contract!Next]_(Contract!contract)
  <2>1. Phase' = Phase
    BY <1>8, SamePhase, ThreadsAssumption, Zenon
       DEF AcceptListen, Depart, FinishPipelined, Leave, server, Threads
  <2> QED
    BY <1>8, <2>1, ListenAdmits, LeaveOrStutter, Zenon
       DEF AcceptListen, FinishPipelined, Leave
<1>9. ASSUME NEW w \in Workers,
             FinishKeepAlive(w) \/ FinishClose(w) \/ PipelinedRequest(w)
      PROVE  [Contract!Next]_(Contract!contract)
  <2>1. cur[w] \in Conns
    BY <1>9, CurConn, Zenon DEF FinishKeepAlive, FinishClose, PipelinedRequest
  <2>2. /\ Passes(w, cur[w])
        /\ listening' = listening /\ conn_pool' \subseteq conn_pool
    BY <1>9, ConsumePasses, Zenon
       DEF FinishKeepAlive, FinishClose, PipelinedRequest, Drop, Passes,
           Operations, server
  <2> QED
    BY <1>6, <2>1, <2>2, Zenon
<1>10. CASE UNCHANGED vars
  <2>1. Phase' = Phase /\ conn_pool' = conn_pool
    BY <1>10, Zenon DEF vars, Phase
  <2> QED
    BY <2>1, LeaveOrStutter, Zenon
<1> QED
  BY <1>1, <1>2, <1>3, <1>4, <1>5, <1>7, <1>8, <1>9, <1>10, Zenon
     DEF Next, Caller, Handle, Continue

\* tcp_server implements its contract, for any number of callers, workers and
\* connections: it admits connections only while it listens, and is stopped
\* only with an empty pool.
THEOREM ContractKept == Spec => KeepsContract
<1>1. Init => Contract!Init
  BY Zenon DEF Init, Contract!Init, Phase, Threads
<1> QED
  BY <1>1, InvariantHolds, StepContract, PTL DEF Spec, KeepsContract, Contract!Spec

-----------------------------------------------------------------------------
(* The server as a user of the scheduler.                                  *)

LEMMA Remainder ==
  ASSUME NEW q \in Int, NEW r \in 0 .. (UserModulus - 1)
  PROVE  (UserModulus * q + r) % UserModulus = r
  BY OptionsAssumption

\* Counting modulo UserModulus: the wrapped count follows the true one.
LEMMA WrapStep ==
  ASSUME NEW x \in Int
  PROVE  /\ ((x % UserModulus) + 1) % UserModulus = (x + 1) % UserModulus
         /\ ((x % UserModulus) - 1) % UserModulus = (x - 1) % UserModulus
<1> DEFINE M == UserModulus
           q == x \div M
           r == x % M
<1>1. M \in Nat /\ M > 1 /\ x = M * q + r /\ r \in 0 .. (M - 1) /\ q \in Int
  BY OptionsAssumption
<1> HIDE DEF M, q, r
<1>2. ASSUME NEW k \in Int, NEW s \in 0 .. (M - 1) PROVE (M * k + s) % M = s
  BY <1>2, Remainder, Zenon DEF M
<1>3. (r + 1) % M = (x + 1) % M
  <2>1. CASE r + 1 < M
    <3>1. r + 1 \in 0 .. (M - 1) /\ x + 1 = M * q + (r + 1) /\ r + 1 = M * 0 + (r + 1)
      BY <1>1, <2>1
    <3> QED
      BY <1>1, <1>2, <3>1
  <2>2. CASE r + 1 = M
    <3>1. x + 1 = M * (q + 1) + 0 /\ r + 1 = M * 1 + 0 /\ 0 \in 0 .. (M - 1) /\ q + 1 \in Int
      BY <1>1, <2>2
    <3> QED
      BY <1>2, <3>1
  <2> QED
    BY <1>1, <2>1, <2>2
<1>4. (r - 1) % M = (x - 1) % M
  <2>1. CASE r > 0
    <3>1. r - 1 \in 0 .. (M - 1) /\ x - 1 = M * q + (r - 1) /\ r - 1 = M * 0 + (r - 1)
      BY <1>1, <2>1
    <3> QED
      BY <1>1, <1>2, <3>1
  <2>2. CASE r = 0
    <3>1. /\ x - 1 = M * (q - 1) + (M - 1) /\ r - 1 = M * (-1) + (M - 1)
          /\ M - 1 \in 0 .. (M - 1) /\ q - 1 \in Int /\ -1 \in Int
      BY <1>1, <2>2
    <3> QED
      BY <1>2, <3>1, Zenon
  <2> QED
    BY <1>1, <2>1, <2>2
<1> QED
  BY <1>3, <1>4, Zenon DEF M, r

Stopping == {t \in Callers : pc[t] = "stop_wait"}
Starting == {t \in Callers : pc[t] \in {"start_listen", "start_add"}}

\* The registrations the server should have, as UserBalance counts them.
Due ==
  (IF listening THEN 1 ELSE 0) + Cardinality(Stopping) - Cardinality(Starting)

LEMMA CountTypes ==
  /\ IsFiniteSet(Stopping) /\ Cardinality(Stopping) \in Nat
  /\ IsFiniteSet(Starting) /\ Cardinality(Starting) \in Nat
<1>1. IsFiniteSet(Stopping) /\ IsFiniteSet(Starting)
  BY ThreadsAssumption, FS_Subset, Zenon DEF Stopping, Starting
<1> QED
  BY <1>1, FS_CardinalityType, Zenon

\* A step of a caller moves at most that caller into or out of the counts.
LEMMA CallerCounts ==
  ASSUME TypeOK, NEW t \in Callers, NEW l, Goto(t, l)
  PROVE  /\ Stopping' = IF l = "stop_wait" THEN Stopping \cup {t} ELSE Stopping \ {t}
         /\ Starting' = IF l \in {"start_listen", "start_add"}
                        THEN Starting \cup {t} ELSE Starting \ {t}
  BY Zenon DEF Goto, TypeOK, Threads, Stopping, Starting

\* What a caller's step does to what is due, and to the count itself.
LEMMA CallerDue ==
  ASSUME TypeOK, NEW t \in Callers, Start(t) \/ CallStop(t) \/ Caller(t)
  PROVE  \/ Due' = Due /\ active_users' = active_users
         \/ Due' = Due + 1 /\ active_users' = (active_users + 1) % UserModulus
         \/ Due' = Due - 1 /\ active_users' = (active_users - 1) % UserModulus
<1> USE CountTypes
<1>1. /\ t \notin Stopping => Cardinality(Stopping \cup {t}) = Cardinality(Stopping) + 1
      /\ t \in Stopping => Cardinality(Stopping \ {t}) = Cardinality(Stopping) - 1
      /\ t \notin Starting => Cardinality(Starting \cup {t}) = Cardinality(Starting) + 1
      /\ t \in Starting => Cardinality(Starting \ {t}) = Cardinality(Starting) - 1
  BY FS_AddElement, FS_RemoveElement, Zenon
<1>2. /\ t \in Stopping => Stopping \cup {t} = Stopping
      /\ t \notin Stopping => Stopping \ {t} = Stopping
      /\ t \in Starting => Starting \cup {t} = Starting
      /\ t \notin Starting => Starting \ {t} = Starting
  BY Zenon
<1>3. /\ t \in Stopping <=> pc[t] = "stop_wait"
      /\ t \in Starting <=> pc[t] \in {"start_listen", "start_add"}
  BY Zenon DEF Stopping, Starting
<1>4. CASE Start(t)
  <2> PICK bound \in BOOLEAN :
        /\ listening' = bound
        /\ Goto(t, IF bound THEN "start_listen" ELSE "idle")
    BY <1>4, Zenon DEF Start
  <2>1. Stopping' = Stopping /\ ~listening /\ t \notin Starting
    BY <1>2, <1>3, <1>4, CallerCounts, Zenon DEF Start
  <2>2. CASE bound
    <3>1. Starting' = Starting \cup {t}
      BY <2>2, CallerCounts, Zenon
    <3>2. Cardinality(Starting') = Cardinality(Starting) + 1
      BY <1>1, <2>1, <3>1, Zenon
    <3>3. listening' /\ active_users' = active_users
      BY <1>4, <2>2, Zenon DEF Start
    <3> QED
      BY <2>1, <3>2, <3>3 DEF Due
  <2>3. CASE ~bound
    <3>1. Starting' = Starting
      BY <1>2, <2>1, <2>3, CallerCounts
    <3> QED
      BY <1>4, <2>1, <2>3, <3>1, Zenon DEF Start, Due
  <2> QED
    BY <2>2, <2>3, Zenon
<1>5. CASE StartListen(t)
  BY <1>2, <1>3, <1>5, CallerCounts, Zenon DEF StartListen, server, Due
<1>6. CASE StartAdd(t)
  <2>1. Stopping' = Stopping /\ Starting' = Starting \ {t} /\ t \in Starting
    <3>1. pc[t] = "start_add" /\ Goto(t, "idle")
      BY <1>6, Zenon DEF StartAdd
    <3>2. Stopping' = Stopping \ {t} /\ Starting' = Starting \ {t}
      BY <3>1, CallerCounts
    <3> QED
      BY <1>2, <1>3, <3>1, <3>2
  <2>2. Cardinality(Starting') = Cardinality(Starting) - 1
    BY <1>1, <2>1, Zenon
  <2>3. listening' = listening /\ active_users' = (active_users + 1) % UserModulus
    BY <1>6, Zenon DEF StartAdd
  <2>4. Due' = Due + 1
    BY <2>1, <2>2, <2>3 DEF Due
  <2> QED
    BY <2>3, <2>4, Zenon
<1>7. CASE CallStop(t) \/ StopIgnored(t)
  <2>1. /\ Goto(t, "stop") \/ Goto(t, "idle")
        /\ t \notin Stopping /\ t \notin Starting
        /\ listening' = listening /\ active_users' = active_users
    BY <1>3, <1>7, Zenon DEF CallStop, StopIgnored, server
  <2>2. Stopping' = Stopping /\ Starting' = Starting
    BY <1>2, <2>1, CallerCounts
  <2> QED
    BY <2>1, <2>2, Zenon DEF Due
<1>8. CASE StopBegin(t)
  <2>1. t \notin Stopping /\ t \notin Starting /\ listening /\ ~listening'
    BY <1>3, <1>8, Zenon DEF StopBegin
  <2>2. CASE conn_pool' = {}
    <3> Goto(t, "idle")
      BY <1>8, <2>2, Zenon DEF StopBegin, Drain
    <3>1. Stopping' = Stopping /\ Starting' = Starting
      BY <1>2, <2>1, CallerCounts
    <3>2. active_users' = (active_users - 1) % UserModulus
      BY <1>8, <2>2, Zenon DEF StopBegin, Drain
    <3>3. Due' = Due - 1
      BY <2>1, <3>1 DEF Due
    <3> QED
      BY <3>2, <3>3, Zenon
  <2>3. CASE conn_pool' # {}
    <3>1. Stopping' = Stopping \cup {t} /\ Starting' = Starting
      BY <1>2, <1>8, <2>1, <2>3, CallerCounts, Zenon DEF StopBegin, Drain
    <3>2. active_users' = active_users
      BY <1>8, <2>3, Zenon DEF StopBegin, Drain
    <3>3. Cardinality(Stopping') = Cardinality(Stopping) + 1
      BY <1>1, <2>1, <3>1, Zenon
    <3> QED
      BY <2>1, <3>1, <3>2, <3>3 DEF Due
  <2> QED
    BY <2>2, <2>3, Zenon
<1>9. CASE StopWake(t)
  <2>1. t \in Stopping /\ t \notin Starting /\ listening' = listening
    BY <1>3, <1>9, Zenon DEF StopWake
  <2>2. CASE conn_pool' = {}
    <3> Goto(t, "idle")
      BY <1>9, <2>2, Zenon DEF StopWake, Drain
    <3>1. Stopping' = Stopping \ {t} /\ Starting' = Starting
      BY <1>2, <2>1, CallerCounts
    <3>2. active_users' = (active_users - 1) % UserModulus
      BY <1>9, <2>2, Zenon DEF StopWake, Drain
    <3>3. Cardinality(Stopping') = Cardinality(Stopping) - 1
      BY <1>1, <2>1, <3>1, Zenon
    <3>4. Due' = Due - 1
      BY <2>1, <3>1, <3>3 DEF Due
    <3> QED
      BY <3>2, <3>4, Zenon
  <2>3. CASE conn_pool' # {}
    <3>1. Stopping' = Stopping /\ Starting' = Starting
      BY <1>2, <1>9, <2>1, <2>3, CallerCounts, Zenon DEF StopWake, Drain
    <3> QED
      BY <1>9, <2>1, <2>3, <3>1 DEF StopWake, Drain, Due
  <2> QED
    BY <2>2, <2>3, Zenon
<1> QED
  BY <1>4, <1>5, <1>6, <1>7, <1>8, <1>9, Zenon DEF Caller

\* Workers, and operations that complete, register nobody.
LEMMA OthersDue ==
  ASSUME IInv, \/ \E c \in Conns : AcceptCompletes(c) \/ Completes(c)
               \/ \E c \in Conns : WaitEnds(c) \/ Broadcast(c) \/ BroadcastRuns(c)
               \/ \E w \in Workers, c \in Conns : Handle(w, c)
               \/ \E w \in Workers : Continue(w)
               \/ UNCHANGED vars
  PROVE  Due' = Due /\ active_users' = active_users
<1>1. ASSUME \A t \in Callers : pc'[t] = pc[t], listening' = listening
      PROVE  Due' = Due
  BY <1>1, Zenon DEF Due, Stopping, Starting
<1>2. ASSUME NEW c \in Conns,
             \/ AcceptCompletes(c) \/ Completes(c)
             \/ WaitEnds(c) \/ Broadcast(c) \/ BroadcastRuns(c)
      PROVE  Due' = Due /\ active_users' = active_users
  BY <1>1, <1>2, Zenon
     DEF AcceptCompletes, Completes, WaitEnds, Broadcast, BroadcastRuns, server
<1>3. ASSUME NEW w \in Workers, NEW c \in Conns, Passes(w, c)
      PROVE  \A t \in Callers : pc'[t] = pc[t]
  BY <1>3, ThreadsAssumption, Zenon
     DEF Passes, Take, Await, Depart, Goto, IInv, TypeOK, Threads
<1>4. ASSUME NEW w \in Workers, NEW c \in Conns, Handle(w, c)
      PROVE  Due' = Due /\ active_users' = active_users
  <2>1. Passes(w, c) /\ listening' = listening
    BY <1>4, HandlersPass, Zenon DEF Handle
  <2>2. active_users' = active_users
    BY <1>4, Zenon
       DEF Handle, HandleAccept, HandleSslHandshake, HandleRead, HandleWrite, server
  <2> QED
    BY <1>1, <1>3, <2>1, <2>2, Zenon
<1>5. ASSUME NEW w \in Workers, Continue(w)
      PROVE  Due' = Due /\ active_users' = active_users
  <2>1. listening' = listening /\ active_users' = active_users
    BY <1>5, Zenon DEF Continue, AcceptListen, FinishKeepAlive, FinishPipelined,
       FinishClose, PipelinedRequest, Leave, server
  <2>2. CASE PipelinedRequest(w)
    <3>1. cur[w] \in Conns
      BY <2>2, CurConn, Zenon DEF PipelinedRequest, IInv
    <3> QED
      BY <1>1, <1>3, <2>1, <2>2, <3>1, ConsumePasses, Zenon DEF PipelinedRequest
  <2>3. CASE ~PipelinedRequest(w)
    <3>1. \A t \in Callers : pc'[t] = pc[t]
      BY <1>5, <2>3, ThreadsAssumption, Zenon
         DEF Continue, AcceptListen, FinishKeepAlive, FinishPipelined, FinishClose,
             Leave, Drop, Await, Depart, Goto, IInv, TypeOK, Threads
    <3> QED
      BY <1>1, <2>1, <3>1, Zenon
  <2> QED
    BY <2>2, <2>3, Zenon
<1>6. CASE UNCHANGED vars
  BY <1>1, <1>6, Zenon DEF vars
<1> QED
  BY <1>2, <1>4, <1>5, <1>6, Zenon

\* start() and stop() balance, whatever their overlap, for every number of
\* callers and every width of the counter: nobody else's registration is given
\* back, and none is left behind.
THEOREM UserBalanceHolds == Spec => []UserBalance
<1>1. Init => UserBalance
  <2> SUFFICES ASSUME Init PROVE UserBalance
    BY Zenon
  <2>1. Stopping = {} /\ Starting = {} /\ ~listening /\ active_users = 0
    BY Zenon DEF Init, Stopping, Starting, Threads
  <2>2. Cardinality(Stopping) = 0 /\ Cardinality(Starting) = 0
    BY <2>1, FS_EmptySet, Zenon
  <2>3. Due = 0 /\ 0 % UserModulus = 0
    BY <2>1, <2>2, OptionsAssumption DEF Due
  <2> QED
    BY <2>1, <2>3, Zenon DEF UserBalance, Due, Stopping, Starting
<1>2. IInv /\ UserBalance /\ [Next]_vars => UserBalance'
  <2> SUFFICES ASSUME IInv, UserBalance, [Next]_vars PROVE UserBalance'
    BY Zenon
  <2>1. active_users = Due % UserModulus /\ Due \in Int
    BY CountTypes DEF UserBalance, Due, Stopping, Starting
  <2>2. \/ Due' = Due /\ active_users' = active_users
        \/ Due' = Due + 1 /\ active_users' = (active_users + 1) % UserModulus
        \/ Due' = Due - 1 /\ active_users' = (active_users - 1) % UserModulus
    BY CallerDue, OthersDue, Zenon DEF Next, IInv
  <2>3. active_users' = Due' % UserModulus
    BY <2>1, <2>2, WrapStep, Zenon
  <2> QED
    BY <2>3, Zenon DEF UserBalance, Due, Stopping, Starting
<1> QED
  BY <1>1, <1>2, InvariantHolds, PTL DEF Spec
=============================================================================
