-------------------------- MODULE SharedStateProofs --------------------------
(***************************************************************************)
(* Proofs about the state that the threads of the server share under a     *)
(* mutex: the scheduler (Scheduler), for every set of callers, every pool  *)
(* size, every modulus of active_users and every bound, and the registry   *)
(* of WebSocket connections of http_server (WsRegistry), for any number of *)
(* connections, broadcasting threads, paths and ids.                       *)
(***************************************************************************)
EXTENDS Scheduler, WsRegistry, FiniteSetTheorems, TLAPS

(* The registry of WebSocket connections.                                  *)

\* The registry knows a connection by the path and the id that it has, and
\* under one entry, since a name is used again only when its entry is gone.
Known ==
  /\ \A e \in registry : /\ e = Entry(e.conn)
                         /\ ws[e.conn].at # "none"
                         /\ e.conn \notin joining
  /\ \A c \in joining : ws[c].at # "none"

\* The values of a sender's call.
Calls == [pc : {"idle", "scan", "send"}, path : Paths, ids : SUBSET Ids,
          ahead : Seq(Entries), found : SUBSET Conns, owed : SUBSET Conns]

\* What the sender of call x has in front of its iterator and is to find.
Ahead(x) == {e \in Range(x.ahead) : Matches(e, x.ids)}

\* Half way through the loop of find_ws_conns, a connection that is owed and
\* lives is found or still ahead; one that is owed is not used anew.
LookingAt(x) ==
  /\ x.found \subseteq x.owed
  /\ \A c \in x.owed : ws[c].at # "none"
  /\ x.pc = "scan" =>
       /\ \A e \in Ahead(x) : e.conn \in x.owed
       /\ \A c \in x.owed : Live(c) => c \in x.found \/ \E e \in Ahead(x) : e.conn = c
  /\ x.pc = "send" => \A c \in x.owed : Live(c) => c \in x.found

Looking == \A s \in Senders : LookingAt(call[s])

RegistryInv == RegistryTypeOK /\ Known /\ LiveStaysRegistered /\ Looking /\ IsFiniteSet(registry)

\* What an iterator has passed, and what is left ahead of it.
LEMMA HeadTail ==
  ASSUME NEW S, NEW q \in Seq(S), q # <<>>
  PROVE  /\ Head(q) \in S /\ Tail(q) \in Seq(S)
         /\ Range(q) = {Head(q)} \cup Range(Tail(q))
<1>1. /\ Head(q) = q[1] /\ Tail(q) \in Seq(S) /\ q[1] \in S
      /\ Len(Tail(q)) = Len(q) - 1 /\ Len(q) \in Nat \ {0}
      /\ \A i \in 1 .. Len(Tail(q)) : Tail(q)[i] = q[i + 1]
  OBVIOUS
<1>2. /\ DOMAIN q = 1 .. Len(q) /\ DOMAIN Tail(q) = 1 .. Len(Tail(q))
  BY <1>1
<1>3. \A i \in 2 .. Len(q) : i - 1 \in 1 .. Len(Tail(q)) /\ q[i] = Tail(q)[i - 1]
  BY <1>1
<1>4. ASSUME NEW x \in Range(q) PROVE x \in {Head(q)} \cup Range(Tail(q))
  <2> PICK i \in 1 .. Len(q) : x = q[i]
    BY <1>2, Zenon DEF Range
  <2>1. CASE i = 1
    BY <1>1, <2>1, Zenon
  <2>2. CASE i # 1
    <3>1. i \in 2 .. Len(q)
      BY <1>1, <2>2
    <3> QED
      BY <1>2, <1>3, <3>1, Zenon DEF Range
  <2> QED
    BY <2>1, <2>2, Zenon
<1>5. \A x \in {Head(q)} \cup Range(Tail(q)) : x \in Range(q)
  BY <1>1, <1>2 DEF Range
<1> QED
  BY <1>1, <1>4, <1>5, Zenon

LEMMA OrderIsSeq ==
  ASSUME NEW T, NEW S \in SUBSET T, IsFiniteSet(S), NEW q \in Orders(S)
  PROVE  q \in Seq(T) /\ Range(q) = S
<1>1. Cardinality(S) \in Nat
  BY FS_CardinalityType, Zenon
<1> QED
  BY <1>1 DEF Orders

LEMMA InitRegistry == RegistryInit => RegistryInv
<1> SUFFICES ASSUME RegistryInit PROVE RegistryInv
  BY Zenon
<1>1. RegistryTypeOK
  BY NamesAssumption DEF RegistryInit, RegistryTypeOK, Idle, Entries
<1>2. IsFiniteSet(registry)
  BY FS_EmptySet, Zenon DEF RegistryInit
<1> QED
  BY <1>1, <1>2, Zenon
     DEF RegistryInit, RegistryInv, Known, LiveStaysRegistered, Live, Looking, LookingAt, Idle

\* What is owed changes with the senders only, as long as connections only end.
LEMMA LookingKeeps ==
  ASSUME Looking, call' = call,
         \A s \in Senders : \A c \in call[s].owed :
           ws'[c].at # "none" /\ (Live(c)' => Live(c))
  PROVE  Looking'
  BY Zenon DEF Looking, LookingAt

\* Steps of a connection that only change how far it is, and never wake a name
\* that is in the registry or owed.
LEMMA ConnStep ==
  ASSUME RegistryInv, NEW c \in Conns,
         (\E p \in Paths, i \in Ids : Upgrade(c, p, i)) \/ Open(c) \/ Close(c) \/ Forget(c)
  PROVE  RegistryInv'
<1> USE DEF RegistryInv
<1>1. /\ UNCHANGED <<registry, mtx, call, posted>>
      /\ joining' \in SUBSET Conns
      /\ \A d \in Conns \ {c} : ws'[d] = ws[d] /\ (d \in joining' <=> d \in joining)
  BY Zenon DEF Upgrade, Open, Close, Forget, RegistryTypeOK
<1>2. RegistryTypeOK'
  <2>1. CASE \E p \in Paths, i \in Ids : Upgrade(c, p, i)
    BY <1>1, <2>1 DEF RegistryTypeOK, Upgrade
  <2>2. CASE Open(c) \/ Close(c) \/ Forget(c)
    <3> PICK a \in {"none", "open", "closed"} : ws' = [ws EXCEPT ![c].at = a]
      BY <2>2, Zenon DEF Open, Close, Forget
    <3> DEFINE W == [path : Paths, id : Ids, at : {"none", "started", "open", "closed"}]
    <3>1. ws' \in [Conns -> W]
      <4>1. ws \in [Conns -> W] /\ ws[c] \in W
        BY Zenon DEF RegistryTypeOK
      <4>2. [ws[c] EXCEPT !.at = a] \in W
        BY <4>1, Zenon
      <4>3. ws' = [ws EXCEPT ![c] = [ws[c] EXCEPT !.at = a]]
        BY Zenon
      <4> HIDE DEF W
      <4> QED
        BY <4>1, <4>2, <4>3, Zenon
    <3> QED
      BY <1>1, <3>1, Zenon DEF RegistryTypeOK
  <2> QED
    BY <2>1, <2>2, Zenon
<1>3. CASE \E p \in Paths, i \in Ids : Upgrade(c, p, i)
  <2>1. ws[c].at = "none" /\ c \in joining' /\ ws'[c].at = "started"
    BY <1>3 DEF Upgrade, RegistryTypeOK
  <2>2. \A e \in registry : e.conn # c
    BY <2>1, Zenon DEF Known
  <2>3. \A s \in Senders : c \notin call[s].owed
    BY <2>1, Zenon DEF Looking, LookingAt
  <2>4. Known'
    <3>1. \A e \in registry : e.conn \in Conns \ {c}
      BY <2>2, Zenon DEF RegistryTypeOK, Entries
    <3>2. \A d \in Conns \ {c} : Entry(d)' = Entry(d)
      BY <1>1, Zenon DEF Entry
    <3>3. \A e \in registry : /\ e = Entry(e.conn)'
                              /\ ws'[e.conn].at # "none"
                              /\ e.conn \notin joining'
      <4> TAKE e \in registry
      <4>1. e = Entry(e.conn) /\ ws[e.conn].at # "none" /\ e.conn \notin joining
        BY Zenon DEF Known
      <4> QED
        BY <1>1, <3>1, <3>2, <4>1, Zenon
    <3>4. \A d \in joining' : ws'[d].at # "none"
      <4> TAKE d \in joining'
      <4>1. CASE d = c
        BY <2>1, <4>1, Zenon
      <4>2. CASE d # c
        BY <1>1, <4>2, Zenon DEF Known
      <4> QED
        BY <4>1, <4>2, Zenon
    <3> QED
      BY <1>1, <3>3, <3>4, Zenon DEF Known
  <2>5. LiveStaysRegistered'
    BY <1>1, <2>1, Zenon DEF LiveStaysRegistered, Live, Entry
  <2>6. Looking'
    <3>1. \A s \in Senders : \A d \in call[s].owed :
            ws'[d].at # "none" /\ (Live(d)' => Live(d))
      BY <1>1, <2>3 DEF Looking, LookingAt, Live, RegistryTypeOK
    <3> QED
      BY <1>1, <3>1, LookingKeeps, Zenon
  <2> QED
    BY <1>1, <1>2, <2>4, <2>5, <2>6, Zenon
<1>4. CASE Open(c) \/ Close(c)
  <2>1. /\ joining' = joining /\ Live(c)
        /\ ws'[c].at # "none" /\ ws'[c].path = ws[c].path /\ ws'[c].id = ws[c].id
    BY <1>4 DEF Open, Close, Live, RegistryTypeOK
  <2>2. \A d \in Conns : Entry(d)' = Entry(d) /\ (Live(d)' => Live(d))
    BY <1>1, <2>1, Zenon DEF Entry, Live
  <2>3. Known'
    BY <1>1, <2>1, <2>2, Zenon DEF Known, RegistryTypeOK, Entries
  <2>4. LiveStaysRegistered'
    BY <1>1, <2>1, <2>2, Zenon DEF LiveStaysRegistered
  <2>5. Looking'
    <3>1. \A s \in Senders : \A d \in call[s].owed :
            ws'[d].at # "none" /\ (Live(d)' => Live(d))
      BY <1>1, <2>1, <2>2, Zenon DEF Looking, LookingAt, RegistryTypeOK
    <3> QED
      BY <1>1, <3>1, LookingKeeps, Zenon
  <2> QED
    BY <1>1, <1>2, <2>3, <2>4, <2>5, Zenon
<1>5. CASE Forget(c)
  <2>1. /\ joining' = joining /\ c \notin joining /\ ws'[c].at = "none"
        /\ \A e \in registry : e.conn # c
        /\ \A s \in Senders : c \notin call[s].owed
    BY <1>5 DEF Forget, Expired, RegistryTypeOK
  <2>2. \A d \in Conns \ {c} : Entry(d)' = Entry(d) /\ Live(d)' = Live(d)
    BY <1>1, Zenon DEF Entry, Live
  <2>3. Known'
    BY <1>1, <2>1, <2>2, Zenon DEF Known, RegistryTypeOK, Entries
  <2>4. LiveStaysRegistered'
    BY <1>1, <2>1, <2>2, Zenon DEF LiveStaysRegistered, Live
  <2>5. Looking'
    <3>1. \A s \in Senders : \A d \in call[s].owed :
            ws'[d].at # "none" /\ (Live(d)' => Live(d))
      BY <1>1, <2>1, <2>2 DEF Looking, LookingAt, RegistryTypeOK
    <3> QED
      BY <1>1, <3>1, LookingKeeps, Zenon
  <2> QED
    BY <1>1, <1>2, <2>3, <2>4, <2>5, Zenon
<1> QED
  BY <1>3, <1>4, <1>5, Zenon

LEMMA RegisterStep ==
  ASSUME RegistryInv, NEW c \in Conns, Register(c)
  PROVE  RegistryInv'
<1> USE DEF RegistryInv
<1>1. /\ c \in joining /\ joining' = joining \ {c}
      /\ registry' = {e \in registry : ~Expired(e.conn)} \cup {Entry(c)}
      /\ UNCHANGED <<ws, mtx, call, posted>>
  BY Zenon DEF Register
<1>2. Entry(c) \in Entries /\ Entry(c).conn = c /\ Entry(c)' = Entry(c)
  BY <1>1, Zenon DEF Entry, Entries, RegistryTypeOK
<1>3. RegistryTypeOK'
  BY <1>1, <1>2, Zenon DEF RegistryTypeOK
<1>4. IsFiniteSet(registry')
  <2>1. IsFiniteSet({e \in registry : ~Expired(e.conn)})
    BY FS_Subset, Zenon
  <2> QED
    BY <1>1, <2>1, FS_AddElement, Zenon
<1>5. Known'
  BY <1>1, <1>2, Zenon DEF Known, Entry
<1>6. LiveStaysRegistered'
  <2> SUFFICES ASSUME NEW d \in Conns, Live(d)', d \notin joining'
               PROVE  Entry(d)' \in registry'
    BY Zenon DEF LiveStaysRegistered
  <2>1. CASE d = c
    BY <1>1, <1>2, <2>1, Zenon
  <2>2. CASE d # c
    <3>1. Live(d) /\ Entry(d) \in registry /\ Entry(d)' = Entry(d) /\ Entry(d).conn = d
      BY <1>1, <2>2, Zenon DEF LiveStaysRegistered, Live, Entry
    <3>2. ~Expired(d)
      BY <3>1, Zenon DEF Live, Expired
    <3> QED
      BY <1>1, <3>1, <3>2, Zenon
  <2> QED
    BY <2>1, <2>2, Zenon
<1>7. Looking'
  BY <1>1, LookingKeeps, Zenon DEF Looking, LookingAt, Live
<1> QED
  BY <1>3, <1>4, <1>5, <1>6, <1>7, Zenon

\* A sender's step changes its own call, and erases what has expired only.
LEMMA SenderStep ==
  ASSUME RegistryInv, NEW s \in Senders,
         \/ \E p \in Paths, ids \in DestIds : Find(s, p, ids)
         \/ Scan(s) \/ Found(s) \/ Broadcast(s)
  PROVE  RegistryInv'
<1> USE DEF RegistryInv
<1> DEFINE me == call[s]
<1>1. /\ me.ahead \in Seq(Entries) /\ me.found \in SUBSET Conns
      /\ me.owed \in SUBSET Conns /\ me.ids \in SUBSET Ids /\ me.path \in Paths
  BY Zenon DEF RegistryTypeOK
<1>2. UNCHANGED <<ws, joining>>
  BY Zenon DEF Find, Scan, Found, Broadcast
<1>3. ASSUME registry' \subseteq registry,
             \A e \in registry \ registry' : ~Live(e.conn)
      PROVE  Known' /\ LiveStaysRegistered' /\ IsFiniteSet(registry')
  <2>1. Known' /\ LiveStaysRegistered'
    BY <1>2, <1>3, Zenon DEF Known, LiveStaysRegistered, Live, Entry
  <2> QED
    BY <1>3, <2>1, FS_Subset, Zenon
<1>4. ASSUME NEW new,
             call' = [call EXCEPT ![s] = new],
             LookingAt(new)
      PROVE  Looking'
  <2>1. call'[s] = new /\ \A t \in Senders \ {s} : call'[t] = call[t]
    BY <1>4, Zenon DEF RegistryTypeOK
  <2>2. \A t \in Senders \ {s} : LookingAt(call[t])
    BY Zenon DEF Looking
  <2>3. \A t \in Senders : LookingAt(call'[t])
    BY <1>4, <2>1, <2>2, Zenon
  <2> QED
    BY <1>2, <2>3, Zenon DEF Looking, LookingAt, Live
<1>5. CASE \E p \in Paths, ids \in DestIds : Find(s, p, ids)
  <2> PICK p \in Paths, ids \in DestIds : Find(s, p, ids)
    BY <1>5, Zenon
  <2> DEFINE range == {e \in registry : e.path = p}
             owed == {e.conn : e \in {x \in range : Matches(x, ids)}}
  <2>1. /\ IsFiniteSet(range) /\ range \in SUBSET Entries /\ owed \in SUBSET Conns
        /\ ids \in SUBSET Ids
    BY NamesAssumption, FS_Subset DEF RegistryTypeOK, Entries
  <2>2. PICK order \in Orders(range) :
          call' = [call EXCEPT ![s] =
            [pc |-> "scan", path |-> p, ids |-> ids, ahead |-> order, found |-> {},
             owed |-> owed]]
    BY Zenon DEF Find
  <2> HIDE DEF range
  <2>3. order \in Seq(Entries) /\ Range(order) = range
    BY <2>1, OrderIsSeq, Zenon
  <2> DEFINE new == [pc |-> "scan", path |-> p, ids |-> ids, ahead |-> order,
                     found |-> {}, owed |-> owed]
  <2>4. UNCHANGED <<registry, posted>> /\ mtx' = s
    BY Zenon DEF Find
  <2>5. RegistryTypeOK'
    BY <1>2, <2>1, <2>2, <2>3, <2>4, Zenon DEF RegistryTypeOK
  <2>6. LookingAt(new)
    <3>1. Ahead(new) = {x \in range : Matches(x, ids)}
      BY <2>3, Zenon DEF Ahead
    <3>2. \A c \in owed : ws[c].at # "none"
      BY Zenon DEF Known, range
    <3> QED
      BY <3>1, <3>2, Zenon DEF LookingAt
  <2> HIDE DEF new
  <2>7. Looking'
    BY <1>4, <2>2, <2>6, Zenon DEF new
  <2> QED
    BY <1>3, <2>4, <2>5, <2>7, Zenon
<1>6. CASE Scan(s)
  <2> DEFINE e == Head(me.ahead)
  <2>1. /\ me.pc = "scan" /\ me.ahead # <<>> /\ Matches(e, me.ids)
        /\ UNCHANGED <<mtx, posted>>
    BY <1>6, Zenon DEF Scan
  <2>2. /\ e \in Entries /\ Tail(me.ahead) \in Seq(Entries)
        /\ Range(me.ahead) = {e} \cup Range(Tail(me.ahead))
    BY <1>1, <2>1, HeadTail, Zenon
  <2>3. LookingAt(me) /\ e \in Ahead(me) /\ e.conn \in Conns /\ e.conn \in me.owed
    BY <2>1, <2>2, Zenon DEF Looking, LookingAt, Ahead, Entries
  <2>4. CASE Expired(e.conn)
    <3> DEFINE new == [me EXCEPT !.ahead = Tail(@)]
    <3>1. call' = [call EXCEPT ![s] = new] /\ registry' = registry \ {e}
      BY <1>6, <2>4, Zenon DEF Scan, RegistryTypeOK
    <3>2. ~Live(e.conn)
      BY <2>4, Zenon DEF Expired, Live
    <3>3. RegistryTypeOK'
      <4>1. call \in [Senders -> Calls] /\ me \in Calls
        BY Zenon DEF RegistryTypeOK, Calls
      <4>2. new \in Calls
        BY <1>1, <2>2, <2>3, <4>1, Zenon DEF Calls
      <4>3. call' \in [Senders -> Calls]
        BY <3>1, <4>1, <4>2, Zenon
      <4>4. registry' \in SUBSET Entries
        BY <3>1, Zenon DEF RegistryTypeOK
      <4> QED
        BY <1>2, <2>1, <4>3, <4>4, Zenon DEF RegistryTypeOK, Calls
    <3>4. LookingAt(new)
      <4>1. /\ new.pc = "scan" /\ new.found = me.found /\ new.owed = me.owed
            /\ new.ids = me.ids /\ new.ahead = Tail(me.ahead)
        BY <2>1, Zenon DEF RegistryTypeOK
      <4>2. Ahead(me) = {e} \cup Ahead(new)
        BY <2>1, <2>2, <4>1, Zenon DEF Ahead
      <4> QED
        BY <2>1, <2>3, <3>2, <4>1, <4>2, Zenon DEF LookingAt
    <3>5. Looking'
      BY <1>4, <3>1, <3>4, Zenon
    <3> QED
      BY <1>3, <3>1, <3>2, <3>3, <3>5, Zenon
  <2>5. CASE ~Expired(e.conn)
    <3> DEFINE new == [me EXCEPT !.ahead = Tail(@), !.found = @ \cup {e.conn}]
    <3>1. call' = [call EXCEPT ![s] = new] /\ registry' = registry
      BY <1>6, <2>5, Zenon DEF Scan, RegistryTypeOK
    <3>2. RegistryTypeOK'
      <4>1. call \in [Senders -> Calls] /\ me \in Calls
        BY Zenon DEF RegistryTypeOK, Calls
      <4>2. new \in Calls
        BY <1>1, <2>2, <2>3, <4>1, Zenon DEF Calls
      <4>3. call' \in [Senders -> Calls]
        BY <3>1, <4>1, <4>2, Zenon
      <4>4. registry' \in SUBSET Entries
        BY <3>1, Zenon DEF RegistryTypeOK
      <4> QED
        BY <1>2, <2>1, <4>3, <4>4, Zenon DEF RegistryTypeOK, Calls
    <3>3. LookingAt(new)
      <4>1. /\ new.pc = "scan" /\ new.found = me.found \cup {e.conn}
            /\ new.owed = me.owed /\ new.ids = me.ids /\ new.ahead = Tail(me.ahead)
        BY <2>1, Zenon DEF RegistryTypeOK
      <4>2. Ahead(me) = {e} \cup Ahead(new)
        BY <2>1, <2>2, <4>1, Zenon DEF Ahead
      <4> QED
        BY <2>1, <2>3, <4>1, <4>2, Zenon DEF LookingAt
    <3>4. Looking'
      BY <1>4, <3>1, <3>3, Zenon
    <3> QED
      BY <1>3, <3>1, <3>2, <3>4, Zenon
  <2> QED
    BY <2>4, <2>5, Zenon
<1>7. CASE Found(s)
  <2> DEFINE new == [me EXCEPT !.pc = "send"]
  <2>1. /\ me.pc = "scan" /\ me.ahead = <<>> /\ mtx' = NoOwner
        /\ UNCHANGED <<registry, posted>> /\ call' = [call EXCEPT ![s] = new]
    BY <1>7, Zenon DEF Found, RegistryTypeOK
  <2>2. RegistryTypeOK'
    BY <1>2, <2>1, Zenon DEF RegistryTypeOK
  <2>3. LookingAt(new)
    <3>1. new.pc = "send" /\ new.found = me.found /\ new.owed = me.owed
      BY Zenon DEF RegistryTypeOK
    <3>2. Ahead(me) = {}
      BY <2>1 DEF Ahead, Range
    <3> QED
      BY <2>1, <3>1, <3>2, Zenon DEF Looking, LookingAt
  <2>4. Looking'
    BY <1>4, <2>1, <2>3, Zenon
  <2> QED
    BY <1>3, <2>1, <2>2, <2>4, Zenon
<1>8. CASE Broadcast(s)
  <2>1. /\ UNCHANGED <<registry, mtx>> /\ call' = [call EXCEPT ![s] = Idle]
        /\ posted' \in [Conns -> Nat]
    BY <1>8 DEF Broadcast, RegistryTypeOK
  <2>2. RegistryTypeOK'
    <3>1. Idle \in Calls
      BY NamesAssumption DEF Idle, Calls
    <3>2. call \in [Senders -> Calls]
      BY Zenon DEF RegistryTypeOK, Calls
    <3>3. call' \in [Senders -> Calls]
      BY <2>1, <3>1, <3>2, Zenon
    <3> QED
      BY <1>2, <2>1, <3>3, Zenon DEF RegistryTypeOK, Calls
  <2>3. LookingAt(Idle)
    BY Zenon DEF LookingAt, Idle
  <2>4. Looking'
    BY <1>4, <2>1, <2>3, Zenon
  <2> QED
    BY <1>3, <2>1, <2>2, <2>4, Zenon
<1> QED
  BY <1>5, <1>6, <1>7, <1>8, Zenon

LEMMA StepRegistry == RegistryInv /\ [RegistryNext]_registryVars => RegistryInv'
<1> SUFFICES ASSUME RegistryInv, [RegistryNext]_registryVars PROVE RegistryInv'
  BY Zenon
<1>1. ASSUME NEW c \in Conns, SendBroadcast(c) PROVE RegistryInv'
  <2>1. UNCHANGED <<ws, joining, registry, mtx, call>> /\ posted' \in [Conns -> Nat]
    BY <1>1 DEF SendBroadcast, RegistryInv, RegistryTypeOK
  <2> QED
    BY <2>1, Zenon
       DEF RegistryInv, RegistryTypeOK, Known, Entry, LiveStaysRegistered, Live, Looking, LookingAt
<1>2. CASE UNCHANGED registryVars
  BY <1>2, Zenon
     DEF registryVars, RegistryInv, RegistryTypeOK, Known, Entry, LiveStaysRegistered, Live, Looking,
     LookingAt
<1> QED
  BY <1>1, <1>2, ConnStep, RegisterStep, SenderStep, Zenon DEF RegistryNext

LEMMA RegistryInvariant == RegistrySpec => []RegistryInv
  BY InitRegistry, StepRegistry, PTL DEF RegistrySpec

-----------------------------------------------------------------------------
\* No purge, of register_ws_conn or of a broadcast, ever takes a live connection
\* out of the registry, for any number of connections, threads and paths.
THEOREM LiveStaysRegisteredHolds == RegistrySpec => []LiveStaysRegistered
<1>1. RegistryInv => LiveStaysRegistered
  BY Zenon DEF RegistryInv
<1> QED
  BY <1>1, RegistryInvariant, PTL

\* find_ws_conns finds every live connection that it is asked for and no other,
\* whichever connections end while it looks, for any set of dest_ids.
THEOREM BroadcastFindsHolds == RegistrySpec => []BroadcastFinds
<1>1. RegistryInv => BroadcastFinds
  BY Zenon DEF RegistryInv, Looking, LookingAt, BroadcastFinds
<1> QED
  BY <1>1, RegistryInvariant, PTL

-----------------------------------------------------------------------------
(* The scheduler.                                                          *)

(***************************************************************************)
(* WorkersQuiesce is not inductive: it says nothing of the states in which *)
(* shutdown() holds the mutex.  The strengthening adds who holds it (only  *)
(* a thread that stops the workers keeps it between two steps), that a     *)
(* worker exists only while its std::thread is in the pool, and that a     *)
(* stopped scheduler with a pool is one being shut down.                   *)
(***************************************************************************)
MutexOwner ==
  \A t \in Threads : pc[t] \in {"sd_stop", "sd_join"} <=> mutex = t

WorkersInPool ==
  \A w \in Workers : pc[w] # "none" => w \in pool

StoppedHasNoPool ==
  ~running /\ mutex = NoThread => pool = {}

IInv ==
  /\ TypeOK
  /\ MutexOwner
  /\ ~terminated => WorkersInPool
  /\ ~terminated => StoppedHasNoPool

\* Unsigned arithmetic of active_users stays in range.
LEMMA Wraps ==
  ASSUME NEW n \in Int
  PROVE  n % UserModulus \in 0 .. (UserModulus - 1)
  BY BoundsAssumption

LEMMA WrapsNot ==
  ASSUME NEW n \in Nat, n < UserModulus
  PROVE  n % UserModulus = n
  BY BoundsAssumption

LEMMA InitIInv == Init => IInv
<1> SUFFICES ASSUME Init PROVE IInv
  BY Zenon
<1>1. TypeOK
  <2>1. pc \in [Threads -> WorkerLabels \cup CallLabels \cup {"idle"}]
    BY Zenon DEF Init, WorkerLabels
  <2>2. active_users \in 0 .. (UserModulus - 1)
    BY BoundsAssumption DEF Init
  <2>3. /\ expired \in Nat /\ cancelled \in Nat /\ jobs \in Nat
        /\ held \in Int /\ calls \in Nat
    BY DEF Init
  <2>4. /\ running \in BOOLEAN /\ stopped \in BOOLEAN
        /\ armed \in BOOLEAN /\ terminated \in BOOLEAN
    BY Zenon DEF Init
  <2>5. /\ mutex \in Threads \cup {NoThread}
        /\ pool \in SUBSET Workers
        /\ users_cv \in SUBSET Threads /\ stopped_cv \in SUBSET Threads
    BY Zenon DEF Init
  <2> QED
    BY <2>1, <2>2, <2>3, <2>4, <2>5, Zenon DEF TypeOK
<1>2. MutexOwner
  BY ThreadsAssumption, Zenon DEF Init, MutexOwner, Threads
<1>3. WorkersInPool
  BY ThreadsAssumption, Zenon DEF Init, WorkersInPool, Threads
<1>4. StoppedHasNoPool
  BY Zenon DEF Init, StoppedHasNoPool
<1> QED
  BY <1>1, <1>2, <1>3, <1>4, Zenon DEF IInv

\* A call returns to the caller's idle state or to service.run().
LEMMA ReturnLabel ==
  ASSUME NEW t \in Threads
  PROVE  Return(t) \in {"idle", "run"}
  BY Zenon DEF Return

(***************************************************************************)
(* The steps that leave the mutex, the pool and running alone, and move at *)
(* most one existing thread to a label that neither holds the mutex nor is *)
(* "none".                                                                 *)
(***************************************************************************)
LEMMA QuietStep ==
  ASSUME IInv, TypeOK',
         UNCHANGED <<mutex, running, pool, terminated>>,
         \A x \in Threads :
           pc'[x] = pc[x] \/ (/\ pc[x] \notin {"sd_stop", "sd_join", "none"}
                              /\ pc'[x] \notin {"sd_stop", "sd_join", "none"})
  PROVE  IInv'
<1>1. MutexOwner'
  BY Zenon DEF IInv, MutexOwner
<1>2. ~terminated' => WorkersInPool'
  BY Zenon DEF IInv, WorkersInPool, Threads
<1>3. ~terminated' => StoppedHasNoPool'
  BY Zenon DEF IInv, StoppedHasNoPool
<1> QED
  BY <1>1, <1>2, <1>3, Zenon DEF IInv

\* Type correctness of the locked section of startup().
LEMMA StartupType ==
  ASSUME TypeOK, NEW t \in Threads, NEW next, StartupSection(t, next),
         next \in WorkerLabels \cup CallLabels \cup {"idle"},
         UNCHANGED callers
  PROVE  TypeOK'
<1> USE DEF TypeOK, Goto, service, cvs, timer, callers, StartupSection, Rearm
<1>1. /\ armed' \in BOOLEAN /\ running' \in BOOLEAN
      /\ stopped' \in BOOLEAN /\ terminated' \in BOOLEAN
  BY Zenon
<1>2. cancelled' \in {cancelled, cancelled + 1, cancelled + 0}
  BY Zenon
<1>3. cancelled' \in Nat
  BY <1>2
<1>4. pc' \in [Threads -> WorkerLabels \cup CallLabels \cup {"idle"}]
  BY Zenon DEF WorkerLabels
<1> QED
  BY <1>1, <1>3, <1>4, Zenon

\* Type correctness is inductive by itself.
LEMMA TypeStep == TypeOK /\ [Next]_vars => TypeOK'
<1> SUFFICES ASSUME TypeOK, [Next]_vars PROVE TypeOK'
  BY Zenon
<1> USE DEF TypeOK, Goto, service, cvs, timer, callers
<1>1. ASSUME NEW t \in Threads, NEW op \in Operations, Call(t, op)
      PROVE  TypeOK'
  BY <1>1 DEF Call, CallLabels
<1>2. ASSUME NEW t \in Threads, Post(t) PROVE TypeOK'
  BY <1>2 DEF Post
<1>3. ASSUME NEW t \in Threads, Startup(t) PROVE TypeOK'
  BY <1>3, ReturnLabel, StartupType, Zenon DEF Startup, WorkerLabels
<1>4. ASSUME NEW t \in Threads, AddCheck(t) PROVE TypeOK'
  BY <1>4, Zenon DEF AddCheck, CallLabels
<1>5. ASSUME NEW t \in Threads, AddStartup(t) PROVE TypeOK'
  BY <1>5, StartupType, Zenon DEF AddStartup, CallLabels
<1>6. ASSUME NEW t \in Threads, AddIncrement(t) PROVE TypeOK'
  BY <1>6, ReturnLabel, Wraps DEF AddIncrement, WorkerLabels
<1>7. ASSUME NEW t \in Threads, RemoveActiveUser(t) PROVE TypeOK'
  BY <1>7, ReturnLabel, Wraps DEF RemoveActiveUser, WorkerLabels
<1>8. ASSUME NEW t \in Threads, ShutdownEnter(t) PROVE TypeOK'
  BY <1>8, Zenon DEF ShutdownEnter, WaitForUsers, BeginStop, CallLabels
<1>9. ASSUME NEW t \in Threads, ShutdownWake(t) PROVE TypeOK'
  BY <1>9, Zenon DEF ShutdownWake, WaitForUsers, BeginStop, CallLabels
<1>10. ASSUME NEW t \in Threads, ShutdownFinish(t) PROVE TypeOK'
  BY <1>10, ReturnLabel, Zenon DEF ShutdownFinish, WorkerLabels
<1>21. ASSUME NEW t \in Threads, ShutdownStop(t) PROVE TypeOK'
  BY <1>21, Zenon DEF ShutdownStop, CallLabels
<1>11. ASSUME NEW t \in Threads, JoinEnter(t) \/ JoinWake(t) PROVE TypeOK'
  BY <1>11, ReturnLabel, Zenon DEF JoinEnter, JoinWake, JoinTest, WorkerLabels, CallLabels
<1>12. ASSUME NEW t \in Threads, SpuriousWakeup(t) PROVE TypeOK'
  BY <1>12, Zenon DEF SpuriousWakeup
<1>13. ASSUME NEW w \in Workers, WorkerTest(w) PROVE TypeOK'
  BY <1>13, Zenon DEF WorkerTest, WorkerLabels, Threads
<1>14. ASSUME NEW w \in Workers, RunReturns(w) PROVE TypeOK'
  BY <1>14, Zenon DEF RunReturns, WorkerLabels, Threads
<1>15. ASSUME NEW w \in Workers, TakeJob(w) PROVE TypeOK'
  BY <1>15 DEF TakeJob, WorkerLabels, Threads
<1>16. ASSUME NEW w \in Workers, EndJob(w) PROVE TypeOK'
  BY <1>16, Zenon DEF EndJob, WorkerLabels, Threads
<1>17. ASSUME NEW w \in Workers, KeepRunning(w) PROVE TypeOK'
  <2>1. armed' \in BOOLEAN
    BY <1>17, Zenon DEF KeepRunning
  <2>2. expired' \in Nat /\ cancelled' \in Nat
    <3>1. PICK e \in {0, 1} :
            /\ e <= expired /\ 1 - e <= cancelled
            /\ expired' = expired - e
            /\ cancelled' \in {cancelled - (1 - e), cancelled - (1 - e) + 1,
                               cancelled - (1 - e) + 0}
      BY <1>17, Zenon DEF KeepRunning
    <3> QED
      BY <3>1
  <2> QED
    BY <1>17, <2>1, <2>2, Zenon DEF KeepRunning
<1>18. ASSUME NEW w \in Workers, ThreadStopHook(w) PROVE TypeOK'
  BY <1>18, Zenon DEF ThreadStopHook, WorkerLabels, Threads
<1>19. CASE TimerExpires
  <2>1. armed' \in BOOLEAN
    BY <1>19, Zenon DEF TimerExpires
  <2> QED
    BY <1>19, <2>1 DEF TimerExpires
<1>20. CASE UNCHANGED vars
  BY <1>20, Zenon DEF vars
<1> QED
  BY Zenon, <1>1, <1>2, <1>3, <1>4, <1>5, <1>6, <1>7, <1>8, <1>9, <1>10, <1>11,
     <1>12, <1>13, <1>14, <1>15, <1>16, <1>17, <1>18, <1>19, <1>20,
     <1>21
     DEF Next, Operation, Worker

\* The locked section of startup() keeps the invariant.
LEMMA StartupKeepsIInv ==
  ASSUME IInv, TypeOK', NEW t \in Threads, NEW next,
         StartupSection(t, next), next \notin {"sd_stop", "sd_join", "none"},
         pc[t] \notin {"sd_stop", "sd_join", "none"}
  PROVE  IInv'
<1> USE DEF IInv
<1>1. CASE running
  BY <1>1, QuietStep, Zenon DEF StartupSection, Goto, TypeOK
<1>2. CASE ~running
  <2>1. MutexOwner'
    BY <1>2, ThreadsAssumption, Zenon
       DEF MutexOwner, StartupSection, Threads, TypeOK
  <2>2. WorkersInPool'
    BY <1>2, Zenon DEF WorkersInPool, StartupSection
  <2>3. StoppedHasNoPool'
    BY <1>2, Zenon DEF StoppedHasNoPool, StartupSection
  <2> QED
    BY <2>1, <2>2, <2>3, Zenon
<1> QED
  BY <1>1, <1>2, Zenon

\* The two ways on from the test of active_users in shutdown().
LEMMA ShutdownKeepsIInv ==
  ASSUME IInv, TypeOK', NEW t \in Threads, mutex = NoThread,
         pc[t] \in {"shutdown", "sd_wait"},
         WaitForUsers(t) \/ BeginStop(t), UNCHANGED <<stopped, pool, terminated>>
  PROVE  IInv'
<1> USE DEF IInv
<1>1. CASE WaitForUsers(t)
  BY <1>1, QuietStep, Zenon DEF WaitForUsers, Goto, TypeOK
<1>2. CASE BeginStop(t)
  <2>1. MutexOwner'
    BY <1>2, ThreadsAssumption, Zenon DEF MutexOwner, BeginStop, Goto, Threads, TypeOK
  <2>2. ~terminated' => WorkersInPool'
    BY <1>2, Zenon DEF WorkersInPool, BeginStop, Goto, Threads, TypeOK
  <2>3. StoppedHasNoPool'
    BY <1>2, ThreadsAssumption, Zenon DEF StoppedHasNoPool, BeginStop, Threads
  <2> QED
    BY <2>1, <2>2, <2>3, Zenon
<1> QED
  BY <1>1, <1>2, Zenon

\* One step of one thread, or of the timer, keeps the invariant.
LEMMA StepIInv == IInv /\ [Next]_vars => IInv'
<1> SUFFICES ASSUME IInv, [Next]_vars PROVE IInv'
  BY Zenon
<1>0. TypeOK /\ TypeOK'
  BY TypeStep, Zenon DEF IInv
<1> USE <1>0 DEF Goto, service, cvs, timer, callers, TypeOK
<1>1. ASSUME NEW t \in Threads, NEW op \in Operations, Call(t, op)
      PROVE  IInv'
  BY <1>1, QuietStep, Zenon DEF Call, MayCall, Operations
<1>2. ASSUME NEW t \in Threads, Post(t) PROVE IInv'
  BY <1>2, QuietStep, Zenon DEF Post
<1>3. ASSUME NEW t \in Threads, Startup(t) PROVE IInv'
  BY <1>3, ReturnLabel, StartupKeepsIInv, Zenon DEF Startup
<1>4. ASSUME NEW t \in Threads, AddCheck(t) PROVE IInv'
  BY <1>4, QuietStep, Zenon DEF AddCheck
<1>5. ASSUME NEW t \in Threads, AddStartup(t) PROVE IInv'
  BY <1>5, StartupKeepsIInv, Zenon DEF AddStartup
<1>6. ASSUME NEW t \in Threads, AddIncrement(t) PROVE IInv'
  BY <1>6, ReturnLabel, QuietStep, Zenon DEF AddIncrement
<1>7. ASSUME NEW t \in Threads, RemoveActiveUser(t) PROVE IInv'
  BY <1>7, ReturnLabel, QuietStep, Zenon DEF RemoveActiveUser
<1>8. ASSUME NEW t \in Threads, ShutdownEnter(t) PROVE IInv'
  BY <1>8, ShutdownKeepsIInv, Zenon DEF ShutdownEnter
<1>9. ASSUME NEW t \in Threads, ShutdownWake(t) PROVE IInv'
  BY <1>9, ShutdownKeepsIInv, Zenon DEF ShutdownWake
<1>10. ASSUME NEW t \in Threads, ShutdownFinish(t) PROVE IInv'
  <2>1. MutexOwner'
    BY <1>10, ReturnLabel, ThreadsAssumption, Zenon
       DEF ShutdownFinish, IInv, MutexOwner, Threads
  <2>2. ASSUME ~terminated' PROVE WorkersInPool'
    <3>1. ~terminated /\ t \notin pool
      BY <1>10, <2>2, Zenon DEF ShutdownFinish
    <3>2. t \notin Workers
      BY <1>10, <3>1, Zenon DEF ShutdownFinish, IInv, WorkersInPool
    <3> QED
      BY <1>10, <3>1, <3>2, Zenon DEF ShutdownFinish, IInv, WorkersInPool, Threads
  <2>3. StoppedHasNoPool'
    BY <1>10, Zenon DEF ShutdownFinish, StoppedHasNoPool
  <2> QED
    BY <2>1, <2>2, <2>3, Zenon DEF IInv
<1>16. ASSUME NEW t \in Threads, ShutdownStop(t) PROVE IInv'
  <2>1. MutexOwner'
    BY <1>16, Zenon DEF ShutdownStop, IInv, MutexOwner
  <2>2. ~terminated' => WorkersInPool'
    BY <1>16, Zenon DEF ShutdownStop, IInv, WorkersInPool, Threads
  <2>3. ~terminated' => StoppedHasNoPool'
    BY <1>16, Zenon DEF ShutdownStop, IInv, StoppedHasNoPool
  <2> QED
    BY <2>1, <2>2, <2>3, Zenon DEF IInv
<1>11. ASSUME NEW t \in Threads, JoinEnter(t) \/ JoinWake(t) PROVE IInv'
  BY <1>11, ReturnLabel, QuietStep, Zenon DEF JoinEnter, JoinWake, JoinTest
<1>12. ASSUME NEW t \in Threads, SpuriousWakeup(t) PROVE IInv'
  BY <1>12, QuietStep, Zenon DEF SpuriousWakeup
<1>13. ASSUME NEW w \in Workers, Worker(w) PROVE IInv'
  <2>1. w \in Threads
    BY Zenon DEF Threads
  <2>2. CASE WorkerTest(w)
    BY <2>1, <2>2, QuietStep, Zenon DEF WorkerTest
  <2>3. CASE RunReturns(w)
    BY <2>1, <2>3, QuietStep, Zenon DEF RunReturns
  <2>4. CASE TakeJob(w)
    BY <2>1, <2>4, QuietStep, Zenon DEF TakeJob
  <2>5. CASE EndJob(w)
    BY <2>1, <2>5, QuietStep, Zenon DEF EndJob
  <2>6. CASE KeepRunning(w)
    BY <2>6, QuietStep, Zenon DEF KeepRunning
  <2>7. CASE ThreadStopHook(w)
    BY <2>1, <2>7, QuietStep, Zenon DEF ThreadStopHook
  <2> QED
    BY <1>13, <2>2, <2>3, <2>4, <2>5, <2>6, <2>7, Zenon DEF Worker
<1>14. CASE TimerExpires
  BY <1>14, QuietStep, Zenon DEF TimerExpires
<1>15. CASE UNCHANGED vars
  BY <1>15, QuietStep, Zenon DEF vars
<1> QED
  BY <1>1, <1>2, <1>3, <1>4, <1>5, <1>6, <1>7, <1>8, <1>9, <1>10, <1>11,
     <1>12, <1>13, <1>14, <1>15, <1>16, Zenon DEF Next, Operation

\* In every behaviour the variables keep their types: in particular the
\* mutex has one owner and active_users stays a value of its C++ type.
THEOREM TypeCorrect == Spec => []TypeOK
<1>1. Init => TypeOK
  BY InitIInv, Zenon DEF IInv
<1> QED
  BY <1>1, TypeStep, PTL DEF Spec

LEMMA InvariantHolds == Spec => []IInv
  BY InitIInv, StepIInv, PTL DEF Spec

\* shutdown() leaves no worker thread behind, for every number of callers and
\* workers and every overlap of their calls.
THEOREM WorkersQuiesceHolds == Spec => []WorkersQuiesce
<1>1. IInv => WorkersQuiesce
  BY Zenon DEF IInv, WorkersInPool, StoppedHasNoPool, WorkersQuiesce
<1> QED
  BY <1>1, InvariantHolds, PTL

\* A running scheduler always has a keep_running wait or handler pending.
THEOREM ServiceHasWorkHolds == Spec => []ServiceHasWork
<1>1. Init => ServiceHasWork
  BY Zenon DEF Init, ServiceHasWork
<1>2. TypeOK /\ TypeOK' /\ ServiceHasWork /\ [Next]_vars => ServiceHasWork'
  <2> SUFFICES ASSUME TypeOK, TypeOK', ServiceHasWork, [Next]_vars
               PROVE  ServiceHasWork'
    BY Zenon
  <2> USE DEF ServiceHasWork, TypeOK, service, timer
  <2>1. ASSUME NEW t \in Threads, NEW next, StartupSection(t, next)
        PROVE  ServiceHasWork'
    BY <2>1, Zenon DEF StartupSection, Rearm
  <2>2. ASSUME NEW t \in Threads, ShutdownEnter(t) \/ ShutdownWake(t)
        PROVE  ServiceHasWork'
    BY <2>2, Zenon DEF ShutdownEnter, ShutdownWake, WaitForUsers, BeginStop
  <2>3. ASSUME NEW w \in Workers, KeepRunning(w) PROVE ServiceHasWork'
    BY <2>3, Zenon DEF KeepRunning
  <2>4. CASE TimerExpires
    BY <2>4 DEF TimerExpires
  <2>5. CASE UNCHANGED <<running, armed, expired, cancelled>>
    BY <2>5, Zenon
  <2>6. ASSUME NEW t \in Threads, NEW op \in Operations, Call(t, op)
        PROVE  UNCHANGED <<running, armed, expired, cancelled>>
    BY <2>6, Zenon DEF Call
  <2>7. ASSUME NEW t \in Threads, Post(t) \/ SpuriousWakeup(t)
        PROVE  UNCHANGED <<running, armed, expired, cancelled>>
    BY <2>7, Zenon DEF Post, SpuriousWakeup
  <2>8. ASSUME NEW t \in Threads, Operation(t) PROVE ServiceHasWork'
    BY <2>1, <2>2, <2>5, <2>8, Zenon
       DEF Operation, Startup, AddCheck, AddStartup, AddIncrement,
           RemoveActiveUser, ShutdownStop, ShutdownFinish, JoinEnter,
           JoinWake, JoinTest
  <2>9. ASSUME NEW w \in Workers, Worker(w) PROVE ServiceHasWork'
    BY <2>3, <2>5, <2>9, Zenon
       DEF Worker, WorkerTest, RunReturns, TakeJob, EndJob, ThreadStopHook
  <2> QED
    BY <2>4, <2>5, <2>6, <2>7, <2>8, <2>9, Zenon DEF Next, vars
<1> QED
  BY <1>1, <1>2, TypeCorrect, PTL DEF Spec

(***************************************************************************)
(* ShutdownDeferred.  active_users counts the registrations held and those *)
(* whose removal is under way, provided no removal overtakes its           *)
(* registration and the counter is wide enough for the calls made.         *)
(***************************************************************************)
Removing == {t \in Threads : pc[t] = "remove"}
Adding == {t \in Threads : pc[t] \in AddLabels}

CountInv ==
  /\ held \in Nat
  /\ held + Cardinality(Removing) <= active_users
  /\ active_users + Cardinality(Adding) <= calls
  /\ calls <= MaxCalls

LEMMA CountTypes ==
  /\ IsFiniteSet(Removing) /\ Cardinality(Removing) \in Nat
  /\ IsFiniteSet(Adding) /\ Cardinality(Adding) \in Nat
<1>1. IsFiniteSet(Threads)
  BY ThreadsAssumption, FS_Union, Zenon DEF Threads
<1>2. IsFiniteSet(Removing) /\ IsFiniteSet(Adding)
  BY <1>1, FS_Subset, Zenon DEF Removing, Adding
<1> QED
  BY <1>2, FS_CardinalityType, Zenon

LEMMA CountTypesNext ==
  /\ IsFiniteSet(Removing') /\ Cardinality(Removing') \in Nat
  /\ IsFiniteSet(Adding') /\ Cardinality(Adding') \in Nat
<1>1. IsFiniteSet(Threads)
  BY ThreadsAssumption, FS_Union, Zenon DEF Threads
<1>2. IsFiniteSet(Removing') /\ IsFiniteSet(Adding')
  BY <1>1, FS_Subset, Zenon DEF Removing, Adding
<1> QED
  BY <1>2, FS_CardinalityType, Zenon

LEMMA CountInit == Init => CountInv
<1> SUFFICES ASSUME Init PROVE CountInv
  BY Zenon
<1>1. Removing = {} /\ Adding = {}
  BY Zenon DEF Init, Removing, Adding, AddLabels, Threads
<1>2. Cardinality(Removing) = 0 /\ Cardinality(Adding) = 0
  BY <1>1, FS_EmptySet, Zenon
<1>3. held = 0 /\ active_users = 0 /\ calls = 0
  BY Zenon DEF Init
<1> QED
  BY <1>2, <1>3, BoundsAssumption DEF CountInv

\* A step that starts or ends no registration keeps the count.
LEMMA QuietCount ==
  ASSUME TypeOK, CountInv, UNCHANGED <<held, active_users>>,
         calls' \in Nat, calls <= calls', calls' <= MaxCalls,
         Removing' \subseteq Removing, Adding' \subseteq Adding
  PROVE  CountInv'
<1>1. /\ Cardinality(Removing') <= Cardinality(Removing)
      /\ Cardinality(Adding') <= Cardinality(Adding)
  BY CountTypes, FS_Subset, Zenon
<1> QED
  BY <1>1, CountTypes, CountTypesNext, BoundsAssumption DEF CountInv, TypeOK

\* The count is kept by every step.
LEMMA CountStep ==
  ASSUME ~EarlyRemove, MaxCalls < UserModulus,
         TypeOK, TypeOK', CountInv, [Next]_vars
  PROVE  CountInv'
<1> USE DEF TypeOK, Goto, service, cvs, timer, callers
<1>1. ASSUME NEW t \in Threads, NEW op \in Operations, Call(t, op)
      PROVE  CountInv'
  <2>1. pc[t] \notin AddLabels \cup {"remove"}
    BY <1>1, Zenon DEF Call, MayCall, AddLabels
  <2>2. CASE op = "remove"
    <3>1. held > 0 /\ held' = held - 1 /\ UNCHANGED <<active_users, calls>>
      BY <1>1, <2>2, Zenon DEF Call, MayRemove
    <3>2. Removing' = Removing \cup {t} /\ t \notin Removing
      BY <1>1, <2>1, <2>2, Zenon DEF Call, Removing
    <3>3. Adding' = Adding
      BY <1>1, <2>1, <2>2, Zenon DEF Call, Adding, AddLabels
    <3>4. Cardinality(Removing') = Cardinality(Removing) + 1
      BY <3>2, CountTypes, FS_AddElement, Zenon
    <3> QED
      BY <3>1, <3>3, <3>4, CountTypes, BoundsAssumption DEF CountInv
  <2>3. CASE op = "add"
    <3>1. UNCHANGED <<held, active_users>> /\ calls' = calls + 1 /\ calls < MaxCalls
      BY <1>1, <2>3, Zenon DEF Call
    <3>2. Adding' = Adding \cup {t} /\ t \notin Adding
      BY <1>1, <2>1, <2>3, Zenon DEF Call, Adding, AddLabels
    <3>3. Removing' = Removing
      BY <1>1, <2>1, <2>3, Zenon DEF Call, Removing
    <3>4. Cardinality(Adding') = Cardinality(Adding) + 1
      BY <3>2, CountTypes, FS_AddElement, Zenon
    <3> QED
      BY <3>1, <3>3, <3>4, CountTypes, BoundsAssumption DEF CountInv
  <2>4. CASE op \notin {"add", "remove"}
    <3>1. Removing' \subseteq Removing /\ Adding' \subseteq Adding
      BY <1>1, <2>4, Zenon DEF Call, Removing, Adding, AddLabels, Operations
    <3>2. UNCHANGED <<held, active_users>> /\ calls' = calls + 1 /\ calls < MaxCalls
      BY <1>1, <2>4, Zenon DEF Call
    <3>3. calls \in Nat
      BY Zenon
    <3> HIDE DEF TypeOK
    <3>4. calls' \in Nat /\ calls <= calls' /\ calls' <= MaxCalls
      BY <3>2, <3>3, BoundsAssumption
    <3> QED
      BY <3>1, <3>2, <3>4, QuietCount, Zenon
  <2> QED
    BY <2>2, <2>3, <2>4, Zenon
<1>2. ASSUME NEW t \in Threads, AddIncrement(t) PROVE CountInv'
  <2>1. Adding' = Adding \ {t} /\ t \in Adding /\ Removing' = Removing
    BY <1>2, ReturnLabel, Zenon DEF AddIncrement, Adding, AddLabels, Removing
  <2>2. Cardinality(Adding') = Cardinality(Adding) - 1
    BY <2>1, CountTypes, FS_RemoveElement, Zenon
  <2>3. active_users + 1 < UserModulus
    BY <2>2, CountTypes, CountTypesNext, BoundsAssumption DEF CountInv
  <2>4. active_users' = active_users + 1
    BY <1>2, <2>3, BoundsAssumption DEF AddIncrement
  <2>5. held' = held + 1 /\ calls' = calls
    BY <1>2, Zenon DEF AddIncrement
  <2> QED
    BY <2>1, <2>2, <2>4, <2>5, CountTypes, BoundsAssumption DEF CountInv
<1>3. ASSUME NEW t \in Threads, RemoveActiveUser(t) PROVE CountInv'
  <2>1. Removing' = Removing \ {t} /\ t \in Removing /\ Adding' = Adding
    BY <1>3, ReturnLabel, Zenon DEF RemoveActiveUser, Adding, AddLabels, Removing
  <2>2. Cardinality(Removing') = Cardinality(Removing) - 1
    BY <2>1, CountTypes, FS_RemoveElement, Zenon
  <2>3. active_users \in Nat /\ active_users > 0 /\ active_users < UserModulus
    <3>1. held \in Nat /\ active_users \in 0 .. (UserModulus - 1)
      BY Zenon DEF CountInv
    <3>2. held + Cardinality(Removing) <= active_users
      BY Zenon DEF CountInv
    <3> HIDE DEF TypeOK
    <3> QED
      BY <2>2, <3>1, <3>2, CountTypes, CountTypesNext, BoundsAssumption
  <2>4. active_users' = active_users - 1
    <3>1. active_users' = (active_users - 1) % UserModulus
      BY <1>3, Zenon DEF RemoveActiveUser
    <3> HIDE DEF TypeOK
    <3>2. active_users - 1 \in Nat /\ active_users - 1 < UserModulus
      BY <2>3, BoundsAssumption
    <3> QED
      BY <3>1, <3>2, WrapsNot, Zenon
  <2> QED
    BY <1>3, <2>1, <2>2, <2>4, CountTypes, BoundsAssumption
       DEF RemoveActiveUser, CountInv
<1>4. ASSUME UNCHANGED <<held, active_users, calls>>,
             Removing' \subseteq Removing, Adding' \subseteq Adding
      PROVE  CountInv'
  BY <1>4, QuietCount, BoundsAssumption DEF CountInv
<1> USE DEF Removing, Adding, AddLabels
<1>5. ASSUME NEW t \in Threads, Operation(t) PROVE CountInv'
  <2>1. CASE Startup(t)
    BY <1>4, <2>1, ReturnLabel, Zenon DEF Startup, StartupSection
  <2>2. CASE AddCheck(t)
    BY <1>4, <2>2, Zenon DEF AddCheck
  <2>3. CASE AddStartup(t)
    BY <1>4, <2>3, Zenon DEF AddStartup, StartupSection
  <2>4. CASE ShutdownEnter(t) \/ ShutdownWake(t)
    BY <1>4, <2>4, Zenon DEF ShutdownEnter, ShutdownWake, WaitForUsers, BeginStop
  <2>5. CASE ShutdownStop(t) \/ ShutdownFinish(t)
    BY <1>4, <2>5, ReturnLabel, Zenon DEF ShutdownStop, ShutdownFinish
  <2>6. CASE JoinEnter(t) \/ JoinWake(t)
    BY <1>4, <2>6, ReturnLabel, Zenon DEF JoinEnter, JoinWake, JoinTest
  <2> QED
    BY <1>2, <1>3, <1>5, <2>1, <2>2, <2>3, <2>4, <2>5, <2>6, Zenon DEF Operation
<1>6. ASSUME NEW t \in Threads, Post(t) \/ SpuriousWakeup(t) PROVE CountInv'
  BY <1>4, <1>6, Zenon DEF Post, SpuriousWakeup
<1>7. ASSUME NEW w \in Workers, Worker(w) PROVE CountInv'
  BY <1>4, <1>7, Zenon
     DEF Worker, WorkerTest, RunReturns, TakeJob, EndJob, KeepRunning,
         ThreadStopHook
<1>8. CASE TimerExpires
  BY <1>4, <1>8, Zenon DEF TimerExpires
<1>9. CASE UNCHANGED vars
  BY <1>4, <1>9, Zenon DEF vars
<1> QED
  BY <1>1, <1>5, <1>6, <1>7, <1>8, <1>9, Zenon DEF Next

\* "The scheduler will not shutdown until there are no more active users",
\* for every number of callers and workers, as long as nobody removes a
\* registration before it is made and active_users does not wrap around.
THEOREM ShutdownDeferredHolds ==
  ASSUME ~EarlyRemove, MaxCalls < UserModulus
  PROVE  Spec => ShutdownDeferred
<1>1. Init => CountInv
  BY CountInit, Zenon
<1>2. TypeOK /\ TypeOK' /\ CountInv /\ [Next]_vars => CountInv'
  BY CountStep, Zenon
<1>3. TypeOK /\ CountInv /\ [Next]_vars => [running /\ ~running' => held = 0]_vars
  <2> SUFFICES ASSUME TypeOK, CountInv, Next, running, ~running'
               PROVE  held = 0
    BY Zenon
  <2>1. ASSUME NEW t \in Threads, Operation(t)
        PROVE  ShutdownEnter(t) \/ ShutdownWake(t)
    BY <2>1, Zenon DEF Operation, Startup, AddStartup, StartupSection, AddCheck,
           AddIncrement, RemoveActiveUser, ShutdownStop, ShutdownFinish,
           JoinEnter, JoinWake, JoinTest, service
  <2>2. ASSUME NEW w \in Workers PROVE ~Worker(w)
    BY Zenon DEF Worker, WorkerTest, RunReturns, TakeJob, EndJob, KeepRunning,
           ThreadStopHook, service
  <2>3. ~TimerExpires
    BY Zenon DEF TimerExpires, service
  <2>4. ASSUME NEW t \in Threads
        PROVE  ~Post(t) /\ ~SpuriousWakeup(t) /\ \A op \in Operations : ~Call(t, op)
    BY Zenon DEF Post, SpuriousWakeup, Call, service
  <2>5. PICK t \in Threads : ShutdownEnter(t) \/ ShutdownWake(t)
    BY <2>1, <2>2, <2>3, <2>4, Zenon DEF Next
  <2>6. ~(active_users > 0)
    BY <2>5, Zenon DEF ShutdownEnter, ShutdownWake, WaitForUsers, TypeOK
  <2> QED
    BY <2>6, CountTypes, BoundsAssumption DEF CountInv, TypeOK
<1> QED
  BY <1>1, <1>2, <1>3, TypeCorrect, PTL DEF Spec, ShutdownDeferred

(***************************************************************************)
(* NoLostWakeup.  The count shows that a user who has just registered is   *)
(* counted: the increment of active_users does not wrap to 0.              *)
(***************************************************************************)
LEMMA WakeupStep ==
  ASSUME TypeOK, TypeOK', CountInv, CountInv', NoLostWakeup, [Next]_vars
  PROVE  NoLostWakeup'
<1> USE DEF NoLostWakeup, Goto, service, cvs, timer, callers
<1>1. ASSUME UNCHANGED <<mutex, running, active_users, users_cv, stopped_cv>>
      PROVE  NoLostWakeup'
  BY <1>1, Zenon
<1>2. ASSUME NEW t \in Threads, Operation(t) PROVE NoLostWakeup'
  <2>1. CASE Startup(t) \/ AddStartup(t)
    BY <2>1, Zenon DEF Startup, AddStartup, StartupSection
  <2>2. CASE AddIncrement(t)
    <3>1. active_users' > 0
      BY <2>2, CountTypesNext DEF AddIncrement, CountInv, TypeOK
    <3> QED
      BY <2>2, <3>1, Zenon DEF AddIncrement
  <2>3. CASE RemoveActiveUser(t)
    <3>1. active_users' = 0 \/ active_users' > 0
      BY BoundsAssumption DEF TypeOK
    <3> QED
      BY <2>3, <3>1, Zenon DEF RemoveActiveUser
  <2>4. CASE ShutdownEnter(t) \/ ShutdownWake(t)
    BY <2>4, ThreadsAssumption, Zenon
       DEF ShutdownEnter, ShutdownWake, WaitForUsers, BeginStop, Threads
  <2>5. CASE AddCheck(t) \/ ShutdownStop(t)
    BY <2>5, Zenon DEF AddCheck, ShutdownStop
  <2>6. CASE ShutdownFinish(t)
    BY <2>6, Zenon DEF ShutdownFinish
  <2>7. CASE JoinEnter(t) \/ JoinWake(t)
    BY <2>7, Zenon DEF JoinEnter, JoinWake, JoinTest
  <2> QED
    BY <1>2, <2>1, <2>2, <2>3, <2>4, <2>5, <2>6, <2>7, Zenon DEF Operation
<1>3. ASSUME NEW t \in Threads, NEW op \in Operations, Call(t, op)
      PROVE  NoLostWakeup'
  BY <1>1, <1>3, Zenon DEF Call
<1>4. ASSUME NEW t \in Threads, Post(t) \/ SpuriousWakeup(t) PROVE NoLostWakeup'
  BY <1>4, Zenon DEF Post, SpuriousWakeup
<1>5. ASSUME NEW w \in Workers, Worker(w) PROVE NoLostWakeup'
  BY <1>1, <1>5, Zenon DEF Worker, WorkerTest, RunReturns, TakeJob, EndJob, KeepRunning,
     ThreadStopHook
<1>6. CASE TimerExpires \/ UNCHANGED vars
  BY <1>1, <1>6, Zenon DEF TimerExpires, vars
<1> QED
  BY <1>2, <1>3, <1>4, <1>5, <1>6, Zenon DEF Next

\* Neither shutdown() nor join() ever sleeps on when nothing is left that would
\* wake it, for every number of callers and workers and every overlap of their
\* calls, under the conditions of ShutdownDeferredHolds.
THEOREM NoLostWakeupHolds ==
  ASSUME ~EarlyRemove, MaxCalls < UserModulus
  PROVE  Spec => []NoLostWakeup
<1>1. Init => CountInv /\ NoLostWakeup
  BY CountInit, Zenon DEF Init, NoLostWakeup
<1>2. TypeOK /\ TypeOK' /\ CountInv /\ [Next]_vars => CountInv'
  BY CountStep, Zenon
<1>3. /\ TypeOK /\ TypeOK' /\ CountInv /\ CountInv' /\ NoLostWakeup /\ [Next]_vars
      => NoLostWakeup'
  BY WakeupStep, Zenon
<1> QED
  BY <1>1, <1>2, <1>3, TypeCorrect, PTL DEF Spec
==============================================================================
