----------------------------- MODULE WsRegistry -----------------------------
(***************************************************************************)
(* The registry of WebSocket connections that http_server keeps, and the   *)
(* broadcasts that use it: handle_request puts a connection in it after    *)
(* starting the websocket, broadcast_websocket looks connections up from   *)
(* any thread, and connections come to their end without telling it.  The  *)
(* registry holds weak pointers; a broadcast holds the connections it has  *)
(* found, and so does each write that it has posted.                       *)
(*                                                                         *)
(* The multimap is a set of entries: it never has two for one connection,  *)
(* and a broadcast may meet those of its path in any order.                *)
(***************************************************************************)
EXTENDS Naturals, FiniteSets, Sequences, Functions

CONSTANTS
  Conns,     \* TCP connections
  Senders,   \* threads that call broadcast_websocket
  Paths,     \* the paths of the WebSocket handlers
  Ids,       \* values of Sec-WebSocket-Key; clients may choose the same
  DestIds,   \* the sets of ids that broadcasts are for; {} is everybody
  MaxPosted, \* bound on the writes posted to a connection when a broadcast begins
  NoOwner    \* the owner of a free mutex

ASSUME NamesAssumption ==
  /\ NoOwner \notin Senders
  /\ Paths # {} /\ Ids # {}
  /\ DestIds \subseteq SUBSET Ids
  /\ MaxPosted \in Nat

VARIABLES
  ws,       \* for each connection, the path, the id and how far it is: "none",
            \* "started" (start() was called), "open" (the client has the
            \* answer to its handshake), "closed" (all but broadcasts are done)
  joining,  \* connections started and not yet registered
  registry, \* the entries of websocket_conn_registry: path, id, connection
  mtx,      \* the owner of websocket_conn_registry_mtx
  call,     \* for each sender, its broadcast_websocket: where it is, its
            \* arguments, the entries in front of its iterator, what it found
  posted    \* for each connection, the broadcasts posted to its strand

registryVars == <<ws, joining, registry, mtx, call, posted>>

Idle == [pc |-> "idle", path |-> CHOOSE p \in Paths : TRUE, ids |-> {}, ahead |-> <<>>,
         found |-> {}, owed |-> {}]

\* Is the weak pointer to c expired?  Nothing holds a strong one.
Expired(c) ==
  /\ ws[c].at = "closed"
  /\ c \notin joining
  /\ posted[c] = 0
  /\ \A s \in Senders : c \notin call[s].found

Matches(e, ids) == ids = {} \/ e.id \in ids

Entry(c) == [path |-> ws[c].path, id |-> ws[c].id, conn |-> c]

\* The orders in which an iterator may meet the entries of a set.
Orders(S) == {q \in [1 .. Cardinality(S) -> S] : Range(q) = S}

-----------------------------------------------------------------------------
RegistryInit ==
  /\ ws = [c \in Conns |-> [path |-> CHOOSE p \in Paths : TRUE,
                            id |-> CHOOSE i \in Ids : TRUE, at |-> "none"]]
  /\ joining = {}
  /\ registry = {}
  /\ mtx = NoOwner
  /\ call = [s \in Senders |-> Idle]
  /\ posted = [c \in Conns |-> 0]

\* handle_request, for an upgrade that has handlers: the websocket is created
\* and start() called.
Upgrade(c, p, i) ==
  /\ ws[c].at = "none"
  /\ ws' = [ws EXCEPT ![c] = [path |-> p, id |-> i, at |-> "started"]]
  /\ joining' = joining \cup {c}
  /\ UNCHANGED <<registry, mtx, call, posted>>

\* The answer to the handshake is written, on any worker.
Open(c) ==
  /\ ws[c].at = "started"
  /\ ws' = [ws EXCEPT ![c].at = "open"]
  /\ UNCHANGED <<joining, registry, mtx, call, posted>>

\* register_ws_conn without the loop that erases.
RegisterOnly(c) ==
  /\ c \in joining
  /\ mtx = NoOwner
  /\ joining' = joining \ {c}
  /\ registry' = registry \cup {Entry(c)}
  /\ UNCHANGED <<ws, mtx, call, posted>>

\* register_ws_conn: the expired entries are erased and the new one inserted.
Register(c) ==
  /\ c \in joining
  /\ mtx = NoOwner
  /\ joining' = joining \ {c}
  /\ registry' = {e \in registry : ~Expired(e.conn)} \cup {Entry(c)}
  /\ UNCHANGED <<ws, mtx, call, posted>>

\* The websocket is over: closed by its client or a handler, lost, or never
\* opened.
Close(c) ==
  /\ ws[c].at \in {"started", "open"}
  /\ ws' = [ws EXCEPT ![c].at = "closed"]
  /\ UNCHANGED <<joining, registry, mtx, call, posted>>

\* A connection that nothing refers to any more, the ghost `owed' included; its
\* name is free for a new one.
Forget(c) ==
  /\ Expired(c)
  /\ \A s \in Senders : c \notin call[s].owed
  /\ \A e \in registry : e.conn # c
  /\ ws' = [ws EXCEPT ![c].at = "none"]
  /\ UNCHANGED <<joining, registry, mtx, call, posted>>

\* broadcast_websocket calls find_ws_conns, which locks the mutex and takes the
\* range of the path.
Find(s, p, ids) ==
  /\ call[s].pc = "idle"
  /\ \A c \in Conns : posted[c] < MaxPosted
  /\ mtx = NoOwner
  /\ mtx' = s
  /\ LET range == {e \in registry : e.path = p} IN
       \E order \in Orders(range) :
         call' = [call EXCEPT ![s] =
           [pc |-> "scan", path |-> p, ids |-> ids, ahead |-> order, found |-> {},
            owed |-> {e.conn : e \in {x \in range : Matches(x, ids)}}]]
  /\ UNCHANGED <<ws, joining, registry, posted>>

\* A turn of find_ws_conns' loop that, having erased an entry, does not go on.
ScanStays(s) ==
  /\ call[s].pc = "scan"
  /\ call[s].ahead # <<>>
  /\ LET e == Head(call[s].ahead) IN
       /\ Matches(e, call[s].ids)
       /\ IF Expired(e.conn)
          THEN UNCHANGED <<call, registry>>
          ELSE /\ call' = [call EXCEPT ![s].ahead = Tail(@), ![s].found = @ \cup {e.conn}]
               /\ UNCHANGED registry
  /\ UNCHANGED <<ws, joining, mtx, posted>>

\* A turn of the loop that, having erased an entry, goes on by two.
ScanSkips(s) ==
  /\ call[s].pc = "scan"
  /\ call[s].ahead # <<>>
  /\ LET e == Head(call[s].ahead) IN
       /\ Matches(e, call[s].ids)
       /\ IF Expired(e.conn)
          THEN /\ call' = [call EXCEPT ![s].ahead = IF Len(@) > 1 THEN Tail(Tail(@)) ELSE <<>>]
               /\ registry' = registry \ {e}
          ELSE /\ call' = [call EXCEPT ![s].ahead = Tail(@), ![s].found = @ \cup {e.conn}]
               /\ UNCHANGED registry
  /\ UNCHANGED <<ws, joining, mtx, posted>>

\* A turn of the loop that erases by key, and so the whole path.
ScanErasesPath(s) ==
  /\ call[s].pc = "scan"
  /\ call[s].ahead # <<>>
  /\ LET e == Head(call[s].ahead) IN
       /\ Matches(e, call[s].ids)
       /\ IF Expired(e.conn)
          THEN /\ call' = [call EXCEPT ![s].ahead = Tail(@)]
               /\ registry' = {x \in registry : x.path # e.path}
          ELSE /\ call' = [call EXCEPT ![s].ahead = Tail(@), ![s].found = @ \cup {e.conn}]
               /\ UNCHANGED registry
  /\ UNCHANGED <<ws, joining, mtx, posted>>

\* A turn of find_ws_conns' loop.  An entry that is for somebody is found or,
\* when it has expired, erased, and the iterator moves on; at one that is for
\* nobody the iterator stays where it is.
Scan(s) ==
  /\ call[s].pc = "scan"
  /\ call[s].ahead # <<>>
  /\ LET e == Head(call[s].ahead) IN
       /\ Matches(e, call[s].ids)
       /\ IF Expired(e.conn)
          THEN /\ call' = [call EXCEPT ![s].ahead = Tail(@)]
               /\ registry' = registry \ {e}
          ELSE /\ call' = [call EXCEPT ![s].ahead = Tail(@), ![s].found = @ \cup {e.conn}]
               /\ UNCHANGED registry
  /\ UNCHANGED <<ws, joining, mtx, posted>>

\* find_ws_conns unlocks the mutex and returns.
Found(s) ==
  /\ call[s].pc = "scan"
  /\ call[s].ahead = <<>>
  /\ call' = [call EXCEPT ![s].pc = "send"]
  /\ mtx' = NoOwner
  /\ UNCHANGED <<ws, joining, registry, posted>>

\* websocket::broadcast: a write is posted to the strand of each connection, and
\* holds it in the sender's place.
Broadcast(s) ==
  /\ call[s].pc = "send"
  /\ posted' = [c \in Conns |-> IF c \in call[s].found THEN posted[c] + 1 ELSE posted[c]]
  /\ call' = [call EXCEPT ![s] = Idle]
  /\ UNCHANGED <<ws, joining, registry, mtx>>

\* The posted handler writes to the connection, or fails to.
SendBroadcast(c) ==
  /\ posted[c] > 0
  /\ posted' = [posted EXCEPT ![c] = @ - 1]
  /\ UNCHANGED <<ws, joining, registry, mtx, call>>

RegistryNext ==
  \/ \E c \in Conns :
       \/ \E p \in Paths, i \in Ids : Upgrade(c, p, i)
       \/ Open(c) \/ Register(c) \/ Close(c) \/ Forget(c) \/ SendBroadcast(c)
  \/ \E s \in Senders :
       \/ \E p \in Paths, ids \in DestIds : Find(s, p, ids)
       \/ Scan(s) \/ Found(s) \/ Broadcast(s)

RegistrySpec == RegistryInit /\ [][RegistryNext]_registryVars

\* A thread that has begun a broadcast runs on, and the workers run what is
\* posted.
RegistryFairSpec ==
  /\ RegistrySpec
  /\ \A s \in Senders : WF_registryVars(Scan(s) \/ Found(s) \/ Broadcast(s))
  /\ \A c \in Conns : WF_registryVars(SendBroadcast(c))

-----------------------------------------------------------------------------
Live(c) == ws[c].at \in {"started", "open"}

Entries == [path : Paths, id : Ids, conn : Conns]

RegistryTypeOK ==
  /\ ws \in [Conns -> [path : Paths, id : Ids, at : {"none", "started", "open", "closed"}]]
  /\ joining \in SUBSET Conns
  /\ registry \in SUBSET Entries
  /\ mtx \in Senders \cup {NoOwner}
  /\ call \in [Senders -> [pc : {"idle", "scan", "send"}, path : Paths, ids : SUBSET Ids,
                           ahead : Seq(Entries), found : SUBSET Conns, owed : SUBSET Conns]]
  /\ posted \in [Conns -> Nat]

\* A connection, once registered, stays in the registry for as long as it lives,
\* whatever register_ws_conn and the broadcasts erase.
LiveStaysRegistered ==
  \A c \in Conns : Live(c) /\ c \notin joining => Entry(c) \in registry

\* What find_ws_conns returns: every connection that was registered for the path
\* and the ids when the broadcast looked and still lives, and none that was not,
\* although connections end while it looks.
BroadcastFinds ==
  \A s \in Senders : call[s].pc = "send" =>
    /\ call[s].found \subseteq call[s].owed
    /\ \A c \in call[s].owed : Live(c) => c \in call[s].found

\* As long as websockets keep connecting, the entry of a connection that is gone
\* does not stay in the registry.
ExpiredPurged ==
  \A c \in Conns :
    (\E d \in Conns : []<><<Register(d)>>_registryVars) =>
      (Expired(c) ~> \A e \in registry : e.conn # c)

\* The loop of find_ws_conns stands at an entry that is not for the broadcast.
Spins(s) ==
  /\ call[s].pc = "scan"
  /\ call[s].ahead # <<>>
  /\ ~Matches(Head(call[s].ahead), call[s].ids)

\* A broadcast returns, and so gives back the mutex that handle_request needs,
\* unless the loop of find_ws_conns meets an entry of the path that is not for
\* its dest_ids: the iterator is not advanced there, and that broadcast never
\* returns.  See BroadcastToSomeReturns.
BroadcastReturns ==
  \A s \in Senders : call[s].pc # "idle" ~> call[s].pc = "idle" \/ Spins(s)

\* "dest_ids broadcast only to the specified list of ids" (http_server.hpp:257).
\* The code violates it: a broadcast that is not for all clients of its path does
\* not return.
BroadcastToSomeReturns ==
  \A s \in Senders : call[s].pc # "idle" ~> call[s].pc = "idle"
=============================================================================
