------------------------------- MODULE WebSocket -------------------------------
(***************************************************************************)
(* One websocket (include/staticlib/pion/websocket.hpp), from the handshake *)
(* to the close handler, and its client.                                   *)
(*                                                                         *)
(* The websocket is owned by exactly one holder: the completion handler of *)
(* the write, the read or the post that is pending, or the user's code;    *)
(* operations pass it on, and destroying it closes the connection.         *)
(*                                                                         *)
(* The client's i-th frame is sent[i]; on the wire, and in the receive     *)
(* buffer, it is the number i once per byte.                               *)
(*                                                                         *)
(* The socket takes the writes that were started on it in their order, each *)
(* at once or in parts; a broadcast is a write that does not go through the *)
(* owner.  What the client makes of the bytes is `stream'.                 *)
(***************************************************************************)
EXTENDS Naturals, Sequences, FiniteSets, Functions

CONSTANTS
  Sizes,                    \* the sizes of frames
  MaxSent,                  \* bound: frames of the client
  ReadMax,                  \* bound: bytes of one read
  receive_buffer_max_size,
  frames_max_count,
  MaxPieces,                \* bound: pieces of payload of one message
  Liberties                 \* what the client, user code or the build may do

(* "ping_inside":  the client pings between two fragments;                 *)
(* "ping_payload": its pings have a payload;                               *)
(* "unsent":       a handler writes payload and receives without sending;  *)
(* "stack_reused": a close status is overwritten before the socket takes   *)
(*                 it: send_close gives async_write the address of a       *)
(*                 parameter that lives only until the call returns.       *)
ASSUME LibertiesAssumption ==
  Liberties \subseteq {"ping_inside", "ping_payload", "unsent", "stack_reused"}

ASSUME LimitsAssumption ==
  /\ Sizes \subseteq Nat \ {0}
  /\ MaxSent \in Nat /\ ReadMax \in Nat /\ MaxPieces \in Nat
  /\ receive_buffer_max_size \in Nat
  /\ frames_max_count \in Nat

VARIABLES
  sent,       \* the frames that the client has sent
  wire,       \* bytes on their way to the server
  buffer,     \* receive_buffer
  frames,     \* the frames in frames (and frames_cache)
  holder,     \* who owns the websocket
  delivered,  \* the frames of each call of the message handler
  payload,    \* payload_buffers and payload_length, counted in pieces
  queue,      \* the writes started on the socket: "own" or "broadcast"
  cut,        \* those of which the socket has taken a part
  stream      \* what the client has got: "http" before the whole handshake,
              \* "frames", "mixed" once a broadcast cut a write in two,
              \* "broken", "lost" once the connection is

vars == <<sent, wire, buffer, frames, holder, delivered, payload, queue, cut, stream>>
socket == <<cut, stream>>
output == <<payload, queue, cut, stream>>

-----------------------------------------------------------------------------
(* The payload                                                             *)

\* prepare_handshake, in buffers that have no place for a header yet.
Handshake == [buffers |-> <<[kind |-> "handshake"]>>, length |-> 1]

\* Faulty variant: clear_payload forgets payload_length.
ClearPayloadKeepingLength(out) ==
  [buffers |-> <<[kind |-> "none"]>>, length |-> out.length]

\* clear_payload: an empty buffer keeps the place of the header.
ClearPayload(out) == [buffers |-> <<[kind |-> "none"]>>, length |-> 0]

\* write and write_nocopy, of data that is not empty.
Write(out) == [buffers |-> Append(out.buffers, [kind |-> "data"]),
               length |-> out.length + 1]

\* prepare_header
PrepareHeader(out) ==
  [out EXCEPT !.buffers[1] = [kind |-> "header", length |-> out.length]]

\* Are the buffers what a client in the given state expects: the handshake, or
\* a frame whose header tells its length, or nothing at all?
Framed(out, state) ==
  LET first == out.buffers[1] IN
    \/ state = "http" /\ first.kind = "handshake"
    \/ state = "frames" /\ first.kind = "header" /\ first.length = Len(out.buffers) - 1
    \/ first.kind = "none" /\ Len(out.buffers) = 1

-----------------------------------------------------------------------------
Init ==
  /\ sent = <<>> /\ wire = <<>>
  /\ buffer = <<>> /\ frames = <<>>
  /\ holder = "handshake"
  /\ delivered = <<>>
  /\ payload = Handshake
  /\ queue = <<"own">>
  /\ cut = {}
  /\ stream = "http"

-----------------------------------------------------------------------------
(* The client                                                              *)

Data == {"text", "continuation"}
InMessage ==
  \E k \in DOMAIN sent : /\ sent[k].type \in Data /\ ~sent[k].final
                         /\ \A j \in k + 1 .. Len(sent) : sent[j].type \notin Data
Stopped == \E k \in DOMAIN sent : sent[k].type \in {"close", "bad"}

\* A client that follows the protocol, up to a frame that is no frame at all,
\* once it has the answer to its handshake.
SendFrame(f) ==
  /\ Len(sent) < MaxSent
  /\ stream # "http" /\ ~Stopped
  /\ f.type = "text" => ~InMessage
  /\ f.type = "continuation" => InMessage
  /\ f.type \in {"ping", "pong"} => "ping_inside" \in Liberties \/ ~InMessage
  /\ sent' = Append(sent, f)
  /\ wire' = wire \o [i \in 1 .. f.size |-> Len(sent) + 1]
  /\ UNCHANGED <<buffer, frames, holder, delivered, output>>

Frame == [type : Data, final : BOOLEAN, size : Sizes] \cup
         [type : {"ping", "pong", "close", "bad"}, final : {TRUE}, size : Sizes]

-----------------------------------------------------------------------------
(* The receive buffer                                                      *)

\* Faulty variant: the last frame stays in the buffer.
ClearedKeeping == buffer

\* clear_frames_cache: the last frame, which a final one left in the buffer, is
\* removed from it.
Cleared ==
  IF frames = <<>> THEN buffer
  ELSE SubSeq(buffer, sent[frames[Len(frames)]].size + 1, Len(buffer))

\* frame::is_complete, of the frame at the start of bytes b.
IsComplete(b) == b # <<>> /\ sent[b[1]].size <= Len(b)

\* The queue once the owner has started a write: one of its own that is there
\* has failed, a broadcast that is there comes first.
OwnStarted == IF "broadcast" \in Range(queue) THEN <<"broadcast", "own">> ELSE <<"own">>

\* on_close and send_close: the write of the close frame is started, whatever
\* became of the connection.
OnClose(b, fs, out) ==
  /\ holder' = "closing"
  /\ buffer' = b /\ frames' = fs
  /\ payload' = out
  /\ queue' = OwnStarted
  /\ UNCHANGED delivered

\* on_ping: the ping's payload is added to what is there, and all of it written
\* as it is.
OnPing(out) ==
  /\ holder' = "pinging"
  /\ payload' \in {out} \cup (IF "ping_payload" \in Liberties THEN {Write(out)} ELSE {})
  /\ queue' = OwnStarted
  /\ UNCHANGED delivered

\* process_final_frame, for frame i at the start of b and fragments fs.
ProcessFinalFrame(b, fs, i, out) ==
  \/ /\ sent[i].type \in Data
     /\ buffer' = b /\ frames' = Append(fs, i)
     /\ holder' = "user"
     /\ delivered' = Append(delivered, frames')
     /\ payload' = out /\ UNCHANGED queue
  \/ /\ sent[i].type = "ping"
     /\ buffer' = b /\ frames' = Append(fs, i)
     /\ OnPing(out)
  \/ /\ sent[i].type \in {"close", "pong"}
     /\ OnClose(b, Append(fs, i), out)

\* on_continuation: the fragment goes from the buffer to the cache.
OnContinuation(b, fs, i, out) ==
  \/ /\ Len(fs) >= frames_max_count
     /\ OnClose(b, fs, out)
  \/ /\ Len(fs) < frames_max_count
     /\ buffer' = SubSeq(b, sent[i].size + 1, Len(b))
     /\ frames' = Append(fs, i)
     /\ holder' = "posted_process"
     /\ payload' = out /\ UNCHANGED <<delivered, queue>>

\* process_receive_buffer, with bytes b, fragments fs and payload out.
ProcessReceiveBuffer(b, fs, out) ==
  \/ b # <<>> /\ sent[b[1]].type = "bad" /\ OnClose(b, fs, out)
  \/ /\ b # <<>> => sent[b[1]].type # "bad"
     /\ ~IsComplete(b)
     /\ holder' = "reading"
     /\ buffer' = b /\ frames' = fs
     /\ payload' = out /\ UNCHANGED <<delivered, queue>>
  \/ /\ IsComplete(b) /\ sent[b[1]].type # "bad"
     /\ \/ ~sent[b[1]].final /\ OnContinuation(b, fs, b[1], out)
        \/ sent[b[1]].final /\ ProcessFinalFrame(b, fs, b[1], out)

\* Faulty variant: receive() reads without a look at what is in the buffer.
ReceiveReads(out) ==
  /\ buffer' = Cleared /\ frames' = <<>>
  /\ holder' = "reading"
  /\ payload' = out
  /\ UNCHANGED <<delivered, queue>>

\* receive(), with payload out.
Receive(out) == ProcessReceiveBuffer(Cleared, <<>>, out)

-----------------------------------------------------------------------------
(* The holders                                                             *)

Passed == UNCHANGED <<sent, wire, socket>>
WriteDone == "own" \notin Range(queue)

\* The handshake is written and the open handler gets the websocket.
OnOpen ==
  /\ holder = "handshake" /\ WriteDone
  /\ holder' = "user"
  /\ payload' = ClearPayload(payload)
  /\ Passed /\ UNCHANGED <<buffer, frames, delivered, queue>>

\* The user's handler, or code that it passed the websocket to, writes,
UserWrites ==
  /\ holder = "user"
  /\ payload.length < MaxPieces
  /\ payload' = Write(payload)
  /\ Passed /\ UNCHANGED <<buffer, frames, holder, delivered, queue>>

\* receives,
UserReceives ==
  /\ holder = "user"
  /\ "unsent" \in Liberties \/ payload.length = 0
  /\ Receive(payload)
  /\ Passed

\* sends (in the strand, where it is posted first),
UserSends ==
  /\ holder = "user"
  /\ holder' = "posted_send"
  /\ payload' = PrepareHeader(payload)
  /\ Passed /\ UNCHANGED <<buffer, frames, delivered, queue>>

\* closes,
UserCloses == holder = "user" /\ OnClose(buffer, frames, payload) /\ Passed

\* or destroys it, which closes the connection.
UserDrops ==
  /\ holder = "user"
  /\ holder' = "gone"
  /\ stream' = "lost"
  /\ UNCHANGED <<sent, wire, buffer, frames, delivered, payload, queue, cut>>

\* send_internal
SendInternal ==
  /\ holder = "posted_send"
  /\ holder' = "sending"
  /\ queue' = OwnStarted
  /\ Passed /\ UNCHANGED <<buffer, frames, delivered, payload>>

\* A message, or the answer to a ping, has been written: receive().
Written ==
  /\ holder \in {"sending", "pinging"} /\ WriteDone
  /\ Receive(ClearPayload(payload))
  /\ Passed

\* The write of the handshake, of a message or of an answer fails, and with it
\* all that come after it.
WriteFails ==
  /\ holder \in {"handshake", "sending", "pinging"} /\ ~WriteDone
  /\ OnClose(buffer, frames, ClearPayload(payload))
  /\ cut' = cut \ {"own"}
  /\ stream' = "lost"
  /\ UNCHANGED <<sent, wire>>

\* The posted process_receive_buffer of on_continuation.
ProcessPosted ==
  /\ holder = "posted_process"
  /\ ProcessReceiveBuffer(buffer, frames, payload)
  /\ Passed

\* Faulty variant: the new bytes are not counted.
ConsumeUncounted(n) ==
  /\ holder = "reading"
  /\ n <= Len(wire)
  /\ wire' = SubSeq(wire, n + 1, Len(wire))
  /\ \/ Len(buffer) > receive_buffer_max_size /\ OnClose(buffer, frames, payload)
     \/ /\ Len(buffer) <= receive_buffer_max_size
        /\ ProcessReceiveBuffer(buffer \o SubSeq(wire, 1, n), frames, payload)
  /\ UNCHANGED <<sent, socket>>

\* consume: n bytes arrive.
Consume(n) ==
  /\ holder = "reading"
  /\ n <= Len(wire)
  /\ wire' = SubSeq(wire, n + 1, Len(wire))
  /\ \/ Len(buffer) + n > receive_buffer_max_size /\ OnClose(buffer, frames, payload)
     \/ /\ Len(buffer) + n <= receive_buffer_max_size
        /\ ProcessReceiveBuffer(buffer \o SubSeq(wire, 1, n), frames, payload)
  /\ UNCHANGED <<sent, socket>>

\* The client disconnects, or the server stops.
ReadFails == holder = "reading" /\ OnClose(buffer, frames, payload) /\ Passed

\* send_close has written the close frame, or failed to: the close handler is
\* called and the websocket destroyed, which closes the connection.
CloseWritten ==
  /\ holder = "closing" /\ WriteDone
  /\ holder' = "gone"
  /\ stream' = "lost"
  /\ UNCHANGED <<sent, wire, buffer, frames, delivered, payload, queue, cut>>

-----------------------------------------------------------------------------
(* The socket                                                              *)

\* websocket::broadcast and send_broadcast: a frame, header and all, is written
\* to a connection that was found in the registry.
SendBroadcast ==
  /\ holder # "gone"
  /\ "broadcast" \notin Range(queue)
  /\ queue' = Append(queue, "broadcast")
  /\ UNCHANGED <<sent, wire, buffer, frames, holder, delivered, payload, socket>>

\* Does the write w begin with what the client expects next?
Expected(w) ==
  IF w = "broadcast" \/ holder = "closing" THEN stream = "frames"
  ELSE Framed(payload, stream)

\* What the client may make of bytes of the write w.
Received(w) ==
  IF stream \notin {"http", "frames"} THEN {stream}
  ELSE IF cut \ {w} # {} THEN {"mixed"}
  ELSE IF ~Expected(w) THEN {"broken"}
  ELSE IF w = "own" /\ holder = "closing" /\ "stack_reused" \in Liberties
       THEN {stream, "broken"}
  ELSE {stream}

\* The socket takes the first write in its queue, or what is left of it.
TakeWhole ==
  /\ queue # <<>>
  /\ queue' = Tail(queue)
  /\ cut' = cut \ {Head(queue)}
  /\ \E s \in Received(Head(queue)) :
       stream' = IF s = "http" THEN "frames" ELSE s
  /\ UNCHANGED <<sent, wire, buffer, frames, holder, delivered, payload>>

\* The socket's buffer is full after a part of it; async_write tries again with
\* the rest, behind the writes that were started in the meantime.  A write has
\* two parts at most.
TakePart ==
  /\ queue # <<>>
  /\ Head(queue) \notin cut
  /\ Head(queue) = "own" /\ holder = "pinging" => payload.length > 0
  /\ queue' = Append(Tail(queue), Head(queue))
  /\ cut' = cut \cup {Head(queue)}
  /\ stream' \in Received(Head(queue))
  /\ UNCHANGED <<sent, wire, buffer, frames, holder, delivered, payload>>

-----------------------------------------------------------------------------
Steps ==
  \/ OnOpen \/ UserReceives \/ UserSends \/ UserCloses \/ UserDrops
  \/ SendInternal \/ Written \/ ProcessPosted \/ CloseWritten
  \/ \E n \in 1 .. ReadMax : Consume(n)

Next ==
  \/ Steps
  \/ UserWrites
  \/ WriteFails \/ ReadFails
  \/ SendBroadcast \/ TakeWhole \/ TakePart
  \/ \E f \in Frame : SendFrame(f)

Spec == Init /\ [][Next]_vars

\* Workers run, the socket takes what is written, bytes arrive, and the user's
\* code passes on the websocket it holds.
FairSpec == Spec /\ WF_vars(Steps) /\ WF_vars(TakeWhole)

-----------------------------------------------------------------------------
(* Properties                                                              *)

\* The frames that end the client's messages, and the one that ends the n-th
\* message that the handler got.
MessageEnds == {k \in DOMAIN sent : sent[k].type \in Data /\ sent[k].final}
EndOf(n) == IF n = 0 THEN 0 ELSE delivered[n][Len(delivered[n])]

\* The n-th message is what lies between the end of the one before it and the
\* next frame that ends one.
MessageWhole(n) ==
  LET message == delivered[n]
      extent == EndOf(n - 1) + 1 .. EndOf(n)
  IN  /\ Range(message) = {k \in extent : sent[k].type \in Data}
      /\ \A i, j \in DOMAIN message : i < j => message[i] < message[j]
      /\ extent \cap MessageEnds = {EndOf(n)}

\* The message handler gets the client's messages whole, in order and once,
\* with all their fragments and nothing else, however frames are split into
\* reads and whatever the handlers do in between.
MessagesWhole == \A n \in DOMAIN delivered : MessageWhole(n)

\* A client cannot make the server store more than the limits allow: the final
\* frame of a message may come on top of frames_max_count fragments.
StorageBounded ==
  /\ Len(buffer) <= receive_buffer_max_size
  /\ Len(frames) <= frames_max_count + 1

\* What the websocket itself writes is the handshake and then whole frames, with
\* the length in the header, whatever is sent, pinged, broken off or broadcast:
\* the owner has one write pending at a time, and only a broadcast, as the
\* comment of broadcast() warns, may come between two parts of it.
FramesOut == stream # "broken"

\* A message that the client has sent reaches the message handler, unless the
\* websocket is closed: none stays in the buffer waiting for the next one.
MessagesDelivered ==
  \A n \in 1 .. MaxSent :
    Cardinality(MessageEnds) >= n ~> Len(delivered) >= n \/ holder = "gone"
=============================================================================
